---------------------------- MODULE Spec2Model ----------------------------
(***************************************************************************)
(* A model of the dclass package: the lexer goroutine (lex.go), the token  *)
(* handoff to its consumer (nextToken / peekToken) and the recursive       *)
(* descent parser (parse.go).                                              *)
(*                                                                         *)
(* The input text is a sequence of one-byte runes, each a one-character    *)
(* string.  A token is a record [typ, pos, val] where val is the sequence  *)
(* of runes of the token (for an error token: the pieces of its message).  *)
(***************************************************************************)
EXTENDS Integers, Sequences, FiniteSets, TLC

VARIABLES
    input,        \* lexer.input: the string being scanned
    lx,           \* the lexer fields only the lexer goroutine touches
    lpc,          \* where the lexer goroutine is: "run", "send" or "exit"
    cont,         \* what the lexer goroutine does once its blocked send completes
    tokens,       \* lexer.tokens: the unbuffered channel, <<>> or <<token on offer>>
    hasPeeked,    \* lexer.hasPeeked
    peekedToken,  \* lexer.peekedToken
    lastPos,      \* lexer.lastPos
    emitted,      \* history: every token the lexer goroutine has started to send
    sent,         \* history: every token a receive has taken from the channel
    returned,     \* history: every token nextToken has returned
    peeks,        \* history: the tokens peekToken has returned since the last nextToken
    dcf,          \* the File that parser.dcf points to
    stack,        \* the call stack of the parser goroutine, innermost frame last
    retval,       \* the value just returned by the innermost call
    produced,     \* history: the set of Error values parser routines have appended
    reported,     \* the error list parse() inspects after the declaration loop
    result,       \* what Parse returned to its caller: <<>> or <<[dcf, err]>>
    other,        \* a second File, built apart from dcf
    calls         \* history: the calls made on the Files and keyword lists

lexVars    == <<input, lx, lpc, cont, tokens, emitted>>
clientVars == <<hasPeeked, peekedToken, lastPos, sent, returned, peeks>>
parserVars == <<dcf, stack, retval, produced, reported, result>>
dataVars   == <<other, calls>>
vars       == <<input, lx, lpc, cont, tokens, emitted,
                hasPeeked, peekedToken, lastPos, sent, returned, peeks,
                dcf, stack, retval, produced, reported, result,
                other, calls>>

---------------------------------------------------------------------------
(* Bounds of the model. *)

MaxLen   == 3   \* longest text drawn rune by rune from LexAlphabet
MaxWords == 3   \* most words of ParseWords joined into one text
MaxPeeks == 2   \* peekToken results remembered between two nextToken calls

---------------------------------------------------------------------------
(* tokenType, lex.go:35-81 (iota). *)

tokenError       == 0
tokenEOF         == 1
tokenBool        == 2
tokenNumber      == 3
tokenRawchar     == 4
tokenQuote       == 5
tokenIdentifier  == 6
tokenOperator    == 7
tokenLeftParen   == 8
tokenRightParen  == 9
tokenLeftCurly   == 10
tokenRightCurly  == 11
tokenLeftSquare  == 12
tokenRightSquare == 13
tokenComposition == 14
tokenEndline     == 15
tokenSeperator   == 16
tokenAssignment  == 17
tokenVarArray    == 18
tokenKeyDelim    == 19
tokenKeyword     == 20
tokenDClass      == 21
tokenStruct      == 22
tokenTypeDelim   == 23
tokenInt8        == 24
tokenInt16       == 25
tokenInt32       == 26
tokenInt64       == 27
tokenUint8       == 28
tokenUint16      == 29
tokenUint32      == 30
tokenUint64      == 31
tokenFloat       == 32
tokenString      == 33
tokenBlob        == 34
tokenChar        == 35

(* The words of the key map, as rune sequences. *)
W_keyword == <<"k","e","y","w","o","r","d">>
W_dclass  == <<"d","c","l","a","s","s">>
W_struct  == <<"s","t","r","u","c","t">>
W_int8    == <<"i","n","t","8">>
W_true    == <<"t","r","u","e">>
W_false   == <<"f","a","l","s","e">>

key ==
    (W_keyword :> tokenKeyword) @@ (W_dclass :> tokenDClass) @@
    (W_struct :> tokenStruct) @@
    (W_int8 :> tokenInt8) @@
    (<<"i","n","t","1","6">> :> tokenInt16) @@
    (<<"i","n","t","3","2">> :> tokenInt32) @@
    (<<"i","n","t","6","4">> :> tokenInt64) @@
    (<<"u","i","n","t","8">> :> tokenUint8) @@
    (<<"u","i","n","t","1","6">> :> tokenUint16) @@
    (<<"u","i","n","t","3","2">> :> tokenUint32) @@
    (<<"u","i","n","t","6","4">> :> tokenUint64) @@
    (<<"f","l","o","a","t","6","4">> :> tokenFloat) @@
    (<<"s","t","r","i","n","g">> :> tokenString) @@
    (<<"b","l","o","b">> :> tokenBlob) @@ (<<"c","h","a","r">> :> tokenChar)

(* key[word]: a Go map yields the zero value, tokenError, for a missing key. *)
keyOf(word) == IF word \in DOMAIN key THEN key[word] ELSE tokenError

(* tokenName, lex.go:105-142, for the three declaration keywords. *)
tokenName(typ) ==
    IF typ = tokenKeyword THEN W_keyword
    ELSE IF typ = tokenStruct THEN W_struct
    ELSE IF typ = tokenDClass THEN W_dclass
    ELSE <<>>

---------------------------------------------------------------------------
(* Runes. *)

eof == "EOF"

Letters ==
    {"a","b","c","d","e","f","g","h","i","j","k","l","m","n","o","p","q","r",
     "s","t","u","v","w","x","y","z",
     "A","B","C","D","E","F","G","H","I","J","K","L","M","N","O","P","Q","R",
     "S","T","U","V","W","X","Y","Z"}

decimalDigits     == {"0","1","2","3","4","5","6","7","8","9"}
hexadecimalDigits == decimalDigits \cup
                     {"a","b","c","d","e","f","A","B","C","D","E","F"}
octalDigits       == {"0","1","2","3","4","5","6","7"}
binaryDigits      == {"0","1"}
endlineChars      == {"\r", "\n"}

isSpace(r)        == r = " " \/ r = "\t"
isEndOfLine(r)    == r = "\r" \/ r = "\n"
isAlphaNumeric(r) == r = "_" \/ r \in Letters \/ r \in decimalDigits
isOperator(r)     == r \in {"+", "-", "*", "/", "%", "="}
isDataTypeToken(t) == t.typ > tokenTypeDelim

---------------------------------------------------------------------------
(* The rune-level helpers of the lexer.  Each takes the lexer record and   *)
(* returns the record as the call leaves it, with the value it returns.    *)

(* Each helper works on the value of its receiver, not on the expression  *)
(* that computes it: x \in {lexer} binds that value once.                 *)
next(lexer) ==
    CHOOSE n \in
      { IF l.pos >= Len(input)
        THEN [l |-> [l EXCEPT !.width = 0], r |-> eof]
        ELSE [l |-> [l EXCEPT !.width = 1, !.pos = l.pos + 1, !.canBackup = TRUE],
              r |-> input[l.pos + 1]] : l \in {lexer} } : TRUE

backup(lexer) ==
    CHOOSE b \in
      { IF l.canBackup
        THEN [l EXCEPT !.pos = l.pos - l.width, !.canBackup = FALSE]
        ELSE l : l \in {lexer} } : TRUE

peek(lexer) ==
    CHOOSE p \in { [l |-> backup(n.l), r |-> n.r] : n \in {next(lexer)} } : TRUE

accept(lexer, valid) ==
    CHOOSE a \in
      { IF n.r \in valid THEN [l |-> n.l, ok |-> TRUE]
        ELSE [l |-> backup(n.l), ok |-> FALSE] : n \in {next(lexer)} } : TRUE

(* A loop of the code works on the lexer as one pass of it left it: each *)
(* recursive operator below hands the next pass the value x this pass     *)
(* computed, not the expression that computes it.                         *)
RECURSIVE acceptRun(_, _)
acceptRun(lexer, valid) ==
    CHOOSE a \in
      { IF n.r \in valid THEN acceptRun(n.l, valid)
        ELSE backup(n.l) : n \in {next(lexer)} } : TRUE

ignore(lexer) == CHOOSE i \in { [l EXCEPT !.start = l.pos] : l \in {lexer} } : TRUE

(* input[from:to] of Go, as a rune sequence. *)
Slice(from, to) == SubSeq(input, from + 1, to)

(* strings.Count(s, "\n") *)
CountNewlines(s) == Cardinality({i \in DOMAIN s : s[i] = "\n"})

lineNumberAt(pos) == 1 + CountNewlines(Slice(0, pos))
lineNumber == lineNumberAt(lastPos)

---------------------------------------------------------------------------
(* What one run of a state function comes to: the lexer record, the token  *)
(* it is about to send (none when it returned without sending) and what    *)
(* remains to be done after the send.                                      *)

Return(l, state) == [l |-> [l EXCEPT !.state = state], tok |-> <<>>, cont |-> "none"]

(* emit up to and including the channel send, lex.go:206. *)
emit(lexer, t, k) ==
    CHOOSE o \in
      { [l |-> l, tok |-> <<[typ |-> t, pos |-> l.start, val |-> Slice(l.start, l.pos)]>>,
         cont |-> k] : l \in {lexer} } : TRUE

(* The statement of emit that follows the send, lex.go:207. *)
emitReturnKeepStart(l) == l
emitReturn(l) == [l EXCEPT !.start = l.pos]

(* errorf sends an error token; the state function returns its nil. *)
errorfGoesOn(lexer, msg) ==
    CHOOSE o \in
      { [l |-> l, tok |-> <<[typ |-> tokenError, pos |-> l.start, val |-> msg]>>,
         cont |-> "lexAny"] : l \in {lexer} } : TRUE
errorf(lexer, msg) ==
    CHOOSE o \in
      { [l |-> l, tok |-> <<[typ |-> tokenError, pos |-> l.start, val |-> msg]>>,
         cont |-> "nil"] : l \in {lexer} } : TRUE

---------------------------------------------------------------------------
(* strings.IndexAny(l.input[from:], chars) and strings.Index(l.input[from:], *)
(* two-rune substring): the least offset of a match, or -1.                *)

Least(S) == CHOOSE i \in S : \A j \in S : i <= j

IndexAny(from, chars) ==
    LET S == {i \in 0..(Len(input) - from - 1) : input[from + i + 1] \in chars}
    IN IF S = {} THEN -1 ELSE Least(S)

Index2(from, c1, c2) ==
    LET S == {i \in 0..(Len(input) - from - 2) :
                 input[from + i + 1] = c1 /\ input[from + i + 2] = c2}
    IN IF S = {} THEN -1 ELSE Least(S)

---------------------------------------------------------------------------
(* The state functions. *)

(* atTerminator, with the lexer record its peek leaves behind. *)
atTerminator(l) ==
    LET p == peek(l)
    IN [l |-> p.l,
        ok |-> \/ isSpace(p.r) \/ isEndOfLine(p.r) \/ isOperator(p.r)
               \/ p.r \in {eof, ",", ":", ";", ")", "(", "{", "}", "["}]

(* The eof case of the switch of lexAny, lex.go:307-315. *)
lexAnyEOFUnchecked(l) == emit(l, tokenEOF, "eof")
lexAnyEOF(l) ==
    IF l.parenDepth > 0 THEN errorf(l, <<"unclosed left paren">>)
    ELSE IF l.curlyDepth > 0 THEN errorf(l, <<"unclosed right paren">>)
    ELSE emit(l, tokenEOF, "eof")

(* The switch of lexAny, lex.go:306-388. *)
lexAnySwitch(l0) ==
    LET n == next(l0)
        r == n.r
        l == n.l
    IN IF r = eof THEN lexAnyEOF(l)
       ELSE IF isSpace(r) \/ isEndOfLine(r) THEN Return(l, "lexSpace")
       ELSE IF r = "." \/ r \in decimalDigits THEN Return(backup(l), "lexNumber")
       ELSE IF isAlphaNumeric(r) THEN Return(backup(l), "lexIdentifier")
       ELSE IF r = "/" THEN
            LET p1 == peek(l)
                p2 == peek(p1.l)
            IN IF p1.r = "/" THEN Return(next(p1.l).l, "lexComment")
               ELSE IF p2.r = "*" THEN Return(next(p2.l).l, "lexBlockComment")
               ELSE emit(p2.l, tokenOperator, "lexAny")
       ELSE IF r = "=" THEN emit(l, tokenAssignment, "lexAny")
       ELSE IF isOperator(r) THEN emit(l, tokenOperator, "lexAny")
       ELSE IF r = ":" THEN emit(l, tokenComposition, "lexAny")
       ELSE IF r = "," THEN emit(l, tokenSeperator, "lexAny")
       ELSE IF r = "(" THEN emit(l, tokenLeftParen, "parenInc")
       ELSE IF r = ")" THEN emit(l, tokenRightParen, "parenDec")
       ELSE IF r = "{" THEN emit(l, tokenLeftCurly, "curlyInc")
       ELSE IF r = "}" THEN emit(l, tokenRightCurly, "curlyDec")
       ELSE IF r = "\"" THEN Return(l, "lexQuote")
       ELSE IF r = "'" THEN Return(l, "lexChar")
       ELSE IF r = "[" THEN
            LET p == peek(l)
            IN IF p.r = "." \/ p.r \in decimalDigits
               THEN emit(p.l, tokenLeftSquare, "squareInc")
               ELSE IF p.r # "]"
               THEN errorf(p.l, <<"unexpected character: ", p.r, ", following '['">>)
               ELSE emit(next(p.l).l, tokenVarArray, "lexAny")
       ELSE IF r = ";" THEN emit(l, tokenEndline, "lexAny")
       ELSE errorf(l, <<"unexpected character: ", r>>)

(* lexAny from its entry, lex.go:297-305, then the switch. *)
lexAnyFn(l) ==
    IF l.squareDepth > 0 THEN
        LET n == next(l)
        IN IF n.r = "]" THEN emit(n.l, tokenRightSquare, "switch")
           ELSE errorf(n.l, <<"found opening '[' without matching ']' for array type definition.">>)
    ELSE lexAnySwitch(l)

(* lexComment that takes the end of the input for the end of the comment. *)
lexCommentFnToEnd(l) ==
    LET i == IndexAny(l.pos, endlineChars)
    IN IF i < 0 THEN Return(ignore([l EXCEPT !.pos = Len(input)]), "lexAny")
       ELSE Return(ignore([l EXCEPT !.pos = l.pos + i + 1]), "lexAny")
lexCommentFn(l) ==
    LET i == IndexAny(l.pos, endlineChars)
    IN IF i < 0 THEN errorf(l, <<"no new line after comment">>)
       ELSE Return(ignore([l EXCEPT !.pos = l.pos + i + 1]), "lexAny")

lexBlockCommentFn(l) ==
    LET i == Index2(l.pos, "*", "/")
    IN IF i < 0 THEN errorf(l, <<"unclosed block comment">>)
       ELSE Return(ignore([l EXCEPT !.pos = l.pos + i + 2]), "lexAny")

RECURSIVE skipSpace(_)
skipSpace(l) ==
    LET p == peek(l)
        q == peek(p.l)   \* the second l.peek() runs only when isSpace is false
    IN IF isSpace(p.r) THEN (CHOOSE r \in {skipSpace(x) : x \in {next(p.l).l}} : TRUE)
       ELSE IF isEndOfLine(q.r) THEN (CHOOSE r \in {skipSpace(x) : x \in {next(q.l).l}} : TRUE)
       ELSE q.l

(* lexSpace that goes back to where the run of space began. *)
lexSpaceFnRewinds(l) == Return([skipSpace(l) EXCEPT !.pos = l.start], "lexAny")
lexSpaceFn(l) == Return(ignore(skipSpace(l)), "lexAny")

(* lexIdentifier that takes only the data-type names from the key map. *)
RECURSIVE lexIdentifierFnTypesOnly(_)
lexIdentifierFnTypesOnly(l0) ==
    LET n == next(l0)
    IN IF isAlphaNumeric(n.r) THEN (CHOOSE r \in {lexIdentifierFnTypesOnly(x) : x \in {n.l}} : TRUE)
       ELSE LET l1   == backup(n.l)
                word == Slice(l1.start, l1.pos)
                at   == atTerminator(l1)
            IN IF ~at.ok
               THEN errorf(at.l, <<"bad character in identifier ", n.r>>)
               ELSE IF keyOf(word) > tokenTypeDelim THEN emit(at.l, keyOf(word), "lexAny")
               ELSE IF word = W_true \/ word = W_false THEN emit(at.l, tokenBool, "lexAny")
               ELSE emit(at.l, tokenIdentifier, "lexAny")

RECURSIVE lexIdentifierFn(_)
lexIdentifierFn(l0) ==
    LET n == next(l0)
    IN IF isAlphaNumeric(n.r) THEN (CHOOSE r \in {lexIdentifierFn(x) : x \in {n.l}} : TRUE)
       ELSE LET l1   == backup(n.l)
                word == Slice(l1.start, l1.pos)
                at   == atTerminator(l1)
            IN IF ~at.ok
               THEN errorf(at.l, <<"bad character in identifier ", n.r>>)
               ELSE IF keyOf(word) > tokenKeyDelim THEN emit(at.l, keyOf(word), "lexAny")
               ELSE IF word = W_true \/ word = W_false THEN emit(at.l, tokenBool, "lexAny")
               ELSE emit(at.l, tokenIdentifier, "lexAny")

(* A scan of a quoted literal that gives the backslash no meaning. *)
RECURSIVE lexQuotedNoEscape(_, _, _, _)
lexQuotedNoEscape(l0, quote, typ, msg) ==
    LET n == next(l0)
    IN IF n.r = eof \/ n.r = "\n" THEN errorf(n.l, msg)
       ELSE IF n.r = quote THEN emit(n.l, typ, "lexAny")
       ELSE (CHOOSE r \in {lexQuotedNoEscape(x, quote, typ, msg) : x \in {n.l}} : TRUE)

(* lexQuote and lexChar differ in the closing quote, the token and the message. *)
RECURSIVE lexQuoted(_, _, _, _)
lexQuoted(l0, quote, typ, msg) ==
    LET n == next(l0)
    IN IF n.r = "\\" THEN
            LET m == next(n.l)
            IN IF m.r # eof /\ m.r # "\n"
               THEN (CHOOSE r \in {lexQuoted(x, quote, typ, msg) : x \in {m.l}} : TRUE)
               ELSE errorf(m.l, msg)
       ELSE IF n.r = eof \/ n.r = "\n" THEN errorf(n.l, msg)
       ELSE IF n.r = quote THEN emit(n.l, typ, "lexAny")
       ELSE (CHOOSE r \in {lexQuoted(x, quote, typ, msg) : x \in {n.l}} : TRUE)

lexQuoteFn(l) == lexQuoted(l, "\"", tokenQuote, <<"unterminated string">>)
lexCharFn(l)  == lexQuoted(l, "'", tokenRawchar, <<"unterminated character constant">>)

(* lexNumber that reports the literal without the rune that follows it. *)
lexNumberFnStopsShort(l0) ==
    LET a0 == accept(l0, {"0"})
        ax == accept(a0.l, {"x", "X"})
        ab == accept(ax.l, {"b", "B"})
        \* the lexer record, the prefix and the digit set after the base check
        l1 == IF ~a0.ok THEN a0.l ELSE IF ax.ok THEN ax.l ELSE ab.l
        encode == IF ~a0.ok THEN <<>> ELSE IF ax.ok THEN <<"0","x">>
                  ELSE IF ab.ok THEN <<"0","b">> ELSE <<"0">>
        digits == IF ~a0.ok THEN decimalDigits ELSE IF ax.ok THEN hexadecimalDigits
                  ELSE IF ab.ok THEN binaryDigits ELSE octalDigits
        l2 == acceptRun(l1, digits)
        ad == accept(l2, {"."})
    IN IF ad.ok /\ digits # decimalDigits
       THEN errorf(ad.l, <<"non-decimal number (starting with '">> \o encode
                          \o <<"') cannot contain a decimal point.">>)
       ELSE LET l3 == IF ad.ok THEN acceptRun(ad.l, digits) ELSE ad.l
                p  == peek(l3)
            IN IF isAlphaNumeric(p.r)
               THEN LET l4 == p.l
                    IN errorf(l4, <<"bad number syntax: ", "\"">>
                                  \o Slice(l4.start, l4.pos) \o <<"\"">>)
               ELSE emit(p.l, tokenNumber, "lexAny")
lexNumberFn(l0) ==
    LET a0 == accept(l0, {"0"})
        ax == accept(a0.l, {"x", "X"})
        ab == accept(ax.l, {"b", "B"})
        \* the lexer record, the prefix and the digit set after the base check
        l1 == IF ~a0.ok THEN a0.l ELSE IF ax.ok THEN ax.l ELSE ab.l
        encode == IF ~a0.ok THEN <<>> ELSE IF ax.ok THEN <<"0","x">>
                  ELSE IF ab.ok THEN <<"0","b">> ELSE <<"0">>
        digits == IF ~a0.ok THEN decimalDigits ELSE IF ax.ok THEN hexadecimalDigits
                  ELSE IF ab.ok THEN binaryDigits ELSE octalDigits
        l2 == acceptRun(l1, digits)
        ad == accept(l2, {"."})
    IN IF ad.ok /\ digits # decimalDigits
       THEN errorf(ad.l, <<"non-decimal number (starting with '">> \o encode
                          \o <<"') cannot contain a decimal point.">>)
       ELSE LET l3 == IF ad.ok THEN acceptRun(ad.l, digits) ELSE ad.l
                p  == peek(l3)
            IN IF isAlphaNumeric(p.r)
               THEN LET l4 == next(p.l).l
                    IN errorf(l4, <<"bad number syntax: ", "\"">>
                                  \o Slice(l4.start, l4.pos) \o <<"\"">>)
               ELSE emit(p.l, tokenNumber, "lexAny")

(* The rest of a state function once its send has completed. *)
afterSend(l0, k) ==
    IF k = "nil" THEN Return(l0, "nil")
    ELSE LET l == emitReturn(l0)
         IN IF k = "lexAny" THEN Return(l, "lexAny")
            ELSE IF k = "eof" THEN Return(l, "nil")
            ELSE IF k = "switch" THEN lexAnySwitch(l)
            ELSE IF k = "parenInc"
                 THEN Return([l EXCEPT !.parenDepth = l.parenDepth + 1], "lexAny")
            ELSE IF k = "parenDec" THEN
                 LET l1 == [l EXCEPT !.parenDepth = l.parenDepth - 1]
                 IN IF l1.parenDepth < 0
                    THEN errorf(l1, <<"unexpected right paren ", ")">>)
                    ELSE Return(l1, "lexAny")
            ELSE IF k = "curlyInc"
                 THEN Return([l EXCEPT !.curlyDepth = l.curlyDepth + 1], "lexAny")
            ELSE IF k = "curlyDec" THEN
                 LET l1 == [l EXCEPT !.curlyDepth = l.curlyDepth - 1]
                 IN IF l1.parenDepth < 0
                    THEN errorf(l1, <<"unexpected right curly ", "}">>)
                    ELSE Return(l1, "lexAny")
            ELSE \* k = "squareInc"
                 Return([l EXCEPT !.squareDepth = l.squareDepth + 1], "lexNumber")

---------------------------------------------------------------------------
(* The lexer goroutine, lexer.run: it runs the state function l.state      *)
(* until that blocks in a channel send or returns the next state; a nil    *)
(* state ends the loop and the goroutine.                                  *)

(* The blocked send has completed when a receive has emptied the channel. *)
sendCompletedAtOnce == TRUE
sendCompleted == tokens = <<>>

Step(o) ==
    /\ lx' = o.l
    /\ IF o.tok # <<>>
       THEN /\ tokens' = o.tok
            /\ emitted' = Append(emitted, o.tok[1])
            /\ lpc' = "send"
            /\ cont' = o.cont
       ELSE /\ lpc' = IF o.l.state = "nil" THEN "exit" ELSE "run"
            /\ cont' = "none"
            /\ UNCHANGED <<tokens, emitted>>
    /\ UNCHANGED input
    /\ UNCHANGED dataVars
    /\ UNCHANGED clientVars
    /\ UNCHANGED parserVars

Running(state) == lpc = "run" /\ lx.state = state

lexAny          == Running("lexAny") /\ \E o \in {lexAnyFn(lx)} : Step(o)
lexComment      == Running("lexComment") /\ \E o \in {lexCommentFn(lx)} : Step(o)
lexBlockComment == Running("lexBlockComment") /\ \E o \in {lexBlockCommentFn(lx)} : Step(o)
lexSpace        == Running("lexSpace") /\ \E o \in {lexSpaceFn(lx)} : Step(o)
lexIdentifier   == Running("lexIdentifier") /\ \E o \in {lexIdentifierFn(lx)} : Step(o)
lexQuote        == Running("lexQuote") /\ \E o \in {lexQuoteFn(lx)} : Step(o)
lexChar         == Running("lexChar") /\ \E o \in {lexCharFn(lx)} : Step(o)
lexNumber       == Running("lexNumber") /\ \E o \in {lexNumberFn(lx)} : Step(o)

(* The send of emit or errorf completes and the state function goes on. *)
sendDone == lpc = "send" /\ sendCompleted /\ \E o \in {afterSend(lx, cont)} : Step(o)

---------------------------------------------------------------------------
(* nextToken and peekToken, lex.go:247-267.  A receive from the channel    *)
(* blocks until the lexer goroutine offers a token.                        *)

IsTerminal(t) == t.typ = tokenEOF \/ t.typ = tokenError

(* The token nextToken returns, and whether the call can return at all. *)
nextTokenReady  == hasPeeked \/ tokens # <<>>
nextTokenResult == IF hasPeeked THEN peekedToken ELSE tokens[1]

nextTokenDo ==
    /\ nextTokenReady
    /\ hasPeeked' = FALSE
    /\ peekedToken' = peekedToken
    /\ tokens' = IF hasPeeked THEN tokens ELSE <<>>
    /\ sent' = IF hasPeeked THEN sent ELSE Append(sent, tokens[1])
    /\ lastPos' = nextTokenResult.pos
    /\ returned' = Append(returned, nextTokenResult)
    /\ peeks' = <<>>

(* peekToken that forgets to keep the token: it receives and returns it. *)
peekTokenConsumes ==
    /\ nextTokenReady
    /\ hasPeeked' = FALSE
    /\ peekedToken' = nextTokenResult
    /\ tokens' = IF hasPeeked THEN tokens ELSE <<>>
    /\ sent' = IF hasPeeked THEN sent ELSE Append(sent, tokens[1])
    /\ peeks' = IF Len(peeks) < MaxPeeks THEN Append(peeks, nextTokenResult) ELSE peeks
    /\ UNCHANGED <<lastPos, returned>>

peekTokenReady  == nextTokenReady
peekTokenResult == nextTokenResult

peekTokenDo ==
    /\ peekTokenReady
    /\ hasPeeked' = TRUE
    /\ peekedToken' = peekTokenResult
    /\ tokens' = IF hasPeeked THEN tokens ELSE <<>>
    /\ sent' = IF hasPeeked THEN sent ELSE Append(sent, tokens[1])
    /\ peeks' = IF Len(peeks) < MaxPeeks THEN Append(peeks, peekTokenResult) ELSE peeks
    /\ UNCHANGED <<lastPos, returned>>

(* A client that calls the two in any order, as the lexer test's collect does. *)
nextToken ==
    /\ stack = <<>>
    /\ nextTokenDo
    /\ UNCHANGED <<input, lx, lpc, cont, emitted>>
    /\ UNCHANGED dataVars
    /\ UNCHANGED parserVars

peekToken ==
    /\ stack = <<>>
    /\ peekTokenDo
    /\ UNCHANGED <<input, lx, lpc, cont, emitted>>
    /\ UNCHANGED dataVars
    /\ UNCHANGED parserVars

---------------------------------------------------------------------------
(* lex(input), lex.go:270-277: the lexer as constructed, its goroutine started. *)

newLexer ==
    [state |-> "lexAny", pos |-> 0, start |-> 0, width |-> 0, canBackup |-> FALSE,
     parenDepth |-> 0, curlyDepth |-> 0, squareDepth |-> 0]

lex(text) ==
    /\ input = text
    /\ lx = newLexer
    /\ lpc = "run"
    /\ cont = "none"
    /\ tokens = <<>>
    /\ hasPeeked = FALSE
    /\ peekedToken = [typ |-> tokenError, pos |-> 0, val |-> <<>>]
    /\ lastPos = 0
    /\ emitted = <<>>
    /\ sent = <<>>
    /\ returned = <<>>
    /\ peeks = <<>>

(* The texts the lexer is run on: every text of up to MaxLen runes of      *)
(* LexAlphabet, and the inputs of the lexer tests that need longer words.  *)
LexAlphabet == {" ", "\n", "a", "0", "1", ".", "/", "*", "(", ")", "[", "]", "\"", "\\"}

RECURSIVE Texts(_, _)
Texts(alphabet, n) ==
    IF n = 0 THEN {<<>>}
    ELSE LET shorter == Texts(alphabet, n - 1)
         IN shorter \cup {Append(t, c) : t \in shorter, c \in alphabet}

LexSamples ==
    { <<"0","b","1","1","0">>, <<"0","b","1","2">>, <<"0","8">>, <<"3","k">>, <<"(","3">>, <<"3",")">>,
      <<"0","x","5">>, <<"3",".","1">>, <<"0","1","0","7">>, <<"0","x","1",".","2">>,
      <<"{","}">>, <<"}","{">>, <<"'","a","'">>, <<"'","\\","'","'">>, <<"'","a">>,
      <<"t","r","u","e">>, W_struct \o <<" ">> \o W_keyword, W_dclass \o <<"#">>,
      <<"a","#">>, <<"#">>, <<"+","=",";",":",",">>,
      <<"/","/","a","\n","x">>, <<"/","*","a","*","/","x">>,
      <<"i","n","t","8"," ","x","[","3","]",";">>, <<"[","]","[","a">>, <<"[","1","]","[","1">>,
      <<"\"","0","\""," ","3"," "," ","K",";">>,
      <<"k","e","y","w","o","r","d"," ","d","c","l","a","s","s"," ","s",
        "t","r","u","c","t"," ","i","n","t","8"," ","i","n","t","1","6",
        " ","i","n","t","3","2"," ","i","n","t","6","4"," ","u","i","n",
        "t","8"," ","u","i","n","t","1","6"," ","u","i","n","t","3","2",
        " ","u","i","n","t","6","4"," ","f","l","o","a","t","6","4"," ",
        "s","t","r","i","n","g"," ","b","l","o","b"," ","c","h","a","r",
        " ","t","r","u","e"," ","f","a","l","s","e"," ","t","r","u","t",
        "h">> }

LexInputs == Texts(LexAlphabet, MaxLen) \cup LexSamples

(* new(File), parse.go:22: every field of the File has its zero value. *)
newFile ==
    [Classes |-> <<>>, Fields |-> <<>>, ClassByName |-> [isNil |-> TRUE],
     keywords |-> <<>>]

InitLex ==
    /\ \E text \in LexInputs : lex(text)
    /\ dcf = newFile
    /\ stack = <<>>
    /\ retval = FALSE
    /\ produced = {}
    /\ reported = <<>>
    /\ result = <<>>
    /\ other = newFile
    /\ calls = <<>>

NextLex ==
    \/ lexAny \/ lexComment \/ lexBlockComment \/ lexSpace
    \/ lexIdentifier \/ lexQuote \/ lexChar \/ lexNumber \/ sendDone
    \/ nextToken \/ peekToken

SpecLex == InitLex /\ [][NextLex]_vars

---------------------------------------------------------------------------
(* The parser, parse.go.  Every method has the value receiver              *)
(* `func (p parser)`: a call works on its own copy of the parser struct,   *)
(* so each frame of the stack carries the copy p its routine was called    *)
(* with, and the copy is dropped when the routine returns.  What p.dcf and *)
(* p.lex point to (the File, the lexer) is shared by all copies.           *)

(* The three expectedFoo maps are never made nor written: they stay nil. *)
nilMap == [n \in {} |-> 0]

newParser ==
    [dcf |-> "File", errors |-> <<>>, foundEOF |-> FALSE,
     expectedKeywords |-> nilMap, expectedStructs |-> nilMap,
     expectedClasses |-> nilMap]

noToken == [typ |-> tokenError, pos |-> 0, val |-> <<>>]

Frame(fn, pc, p, line) == [fn |-> fn, pc |-> pc, p |-> p, t |-> noToken, line |-> line]

Top == stack[Len(stack)]
At(fn, pc) == stack # <<>> /\ Top.fn = fn /\ Top.pc = pc

(* strconv quoting of %q for the runes that need an escape. *)
RECURSIVE Escape(_)
Escape(s) ==
    IF s = <<>> THEN <<>>
    ELSE LET c == s[1]
             e == IF c = "\"" THEN <<"\\", "\"">>
                  ELSE IF c = "\\" THEN <<"\\", "\\">>
                  ELSE IF c = "\n" THEN <<"\\", "n">>
                  ELSE IF c = "\r" THEN <<"\\", "r">>
                  ELSE IF c = "\t" THEN <<"\\", "t">>
                  ELSE <<c>>
         IN e \o (CHOOSE r \in {Escape(x) : x \in {SubSeq(s, 2, Len(s))}} : TRUE)

(* token.String, lex.go:18-30. *)
String(t) ==
    IF t.typ = tokenEOF THEN <<"E", "O", "F">>
    ELSE IF t.typ = tokenError THEN t.val
    ELSE IF t.typ > tokenKeyDelim THEN <<"<">> \o t.val \o <<">">>
    ELSE IF Len(t.val) > 10
         THEN <<"\"">> \o Escape(SubSeq(t.val, 1, 10)) \o <<"\"", ".", ".", ".">>
    ELSE <<"\"">> \o Escape(t.val) \o <<"\"">>

lexError(t, line) == [kind |-> "lex", line |-> line, msg |-> String(t)]
parseError(msg, line) == [kind |-> "parse", line |-> line, msg |-> msg]
definitionError(identifier, typ, firstUsed) ==
    [kind |-> "definition", line |-> firstUsed,
     msg |-> <<"used ">> \o tokenName(typ) \o <<" '">> \o identifier
             \o <<"', but '">> \o identifier \o <<"' was never defined">>]

(* The definition errors of one pending map, in each order that ranging    *)
(* over the map can take.                                                  *)
RECURSIVE DefinitionErrors(_, _)
DefinitionErrors(m, typ) ==
    IF DOMAIN m = {} THEN {<<>>}
    ELSE UNION { { <<definitionError(n, typ, m[n])>> \o rest :
                     rest \in DefinitionErrors([k \in DOMAIN m \ {n} |-> m[k]], typ) } :
                 n \in DOMAIN m }

Range(q) == {q[i] : i \in DOMAIN q}

(* p.errors = append(p.errors, e) on the copy of a frame. *)
WithError(f, e) == [f EXCEPT !.p.errors = Append(@, e)]

SetTop(f) == [stack EXCEPT ![Len(stack)] = f]
Pop == SubSeq(stack, 1, Len(stack) - 1)

(* return v: the frame goes, and its copy of the parser with it. *)
ReturnValue(f, v, errs) ==
    /\ stack' = Pop
    /\ retval' = v
    /\ produced' = produced \cup Range(errs)

(* return p.callee(...): call with a copy of p, hand its value on after.  *)
TailCall(f, fn, line, errs) ==
    /\ stack' = SetTop([f EXCEPT !.pc = "tail"]) \o <<Frame(fn, "start", f.p, line)>>
    /\ produced' = produced \cup Range(errs)
    /\ UNCHANGED retval

(* A step of the parser that neither takes nor peeks a token. *)
NoTokenCall == UNCHANGED <<tokens, hasPeeked, peekedToken, lastPos, sent, returned, peeks>>

(* parser.next, parse.go:340-353.  It sets foundEOF on its own copy of p,  *)
(* which is gone when it returns; the caller's copy keeps foundEOF.        *)
parserNextPanics(f) == f.p.foundEOF
parserNextDo == nextTokenDo

(* parser.peek, parse.go:355-357. *)
parserPeekDo == peekTokenDo

panic(msg) ==
    /\ stack' = <<>>
    /\ result' = <<[panic |-> msg]>>
    /\ UNCHANGED <<retval, produced, reported, dcf>>
    /\ NoTokenCall

runtimeError(msg) == <<"runtime error: ", msg>>
eofNotHandled == runtimeError("eof not handled by parser, this is a bug in dcparser")

(* What Parse hands to its caller, parse.go:26: `return p.parse(r), nil`. *)
ParseReturn(file) == [dcf |-> file, err |-> "nil"]

(* Parse, parse.go:16-27, from the call of p.parse. *)
Parse ==
    \/ /\ At("Parse", "call")
       /\ stack' = SetTop([Top EXCEPT !.pc = "ret"]) \o <<Frame("parse", "loop", Top.p, 0)>>
       /\ UNCHANGED <<dcf, retval, produced, reported, result>>
       /\ UNCHANGED clientVars
       /\ UNCHANGED lexVars
       /\ UNCHANGED dataVars
    \/ /\ At("Parse", "ret")
       /\ result' = <<ParseReturn(retval)>>
       /\ stack' = Pop
       /\ UNCHANGED <<dcf, retval, produced, reported>>
       /\ UNCHANGED clientVars
       /\ UNCHANGED lexVars
       /\ UNCHANGED dataVars

(* parse, parse.go:50-82. *)
parse ==
    /\ stack # <<>> /\ Top.fn = "parse"
    /\ IF Top.pc = "loop" \/ (Top.pc = "test" /\ retval = TRUE)
       THEN \* for p.parseDeclaration() { }
            /\ stack' = SetTop([Top EXCEPT !.pc = "test"])
                        \o <<Frame("parseDeclaration", "peek", Top.p, 0)>>
            /\ UNCHANGED <<retval, produced, reported>>
       ELSE \* the loop has ended: definition errors, the report, return p.dcf
            \E ek \in DefinitionErrors(Top.p.expectedKeywords, tokenKeyword),
               es \in DefinitionErrors(Top.p.expectedStructs, tokenStruct),
               ec \in DefinitionErrors(Top.p.expectedClasses, tokenDClass) :
                /\ reported' = Top.p.errors \o ek \o es \o ec
                /\ produced' = produced \cup Range(ek \o es \o ec)
                /\ stack' = Pop
                /\ retval' = Top.p.dcf
    /\ UNCHANGED <<dcf, result>>
    /\ UNCHANGED clientVars
    /\ UNCHANGED lexVars
    /\ UNCHANGED dataVars

expectedDeclaration(t) ==
    <<"expected a declaration but got '">> \o String(t) \o <<"'">>

(* parseDeclaration, parse.go:86-114. *)
parseDeclaration ==
    /\ stack # <<>> /\ Top.fn = "parseDeclaration"
    /\ LET f == Top
           t == f.t
       IN IF f.pc = "peek" THEN
               \* t := p.peek()
               /\ parserPeekDo
               /\ stack' = SetTop([f EXCEPT !.t = peekTokenResult, !.pc = "switch"])
               /\ UNCHANGED <<retval, produced, result>>
          ELSE IF f.pc = "tail" THEN
               /\ stack' = Pop
               /\ UNCHANGED <<retval, produced, result>>
               /\ NoTokenCall
          ELSE IF t.typ = tokenEOF THEN
               /\ ReturnValue(f, FALSE, <<>>)
               /\ UNCHANGED result
               /\ NoTokenCall
          ELSE IF t.typ = tokenError THEN
               /\ ReturnValue(WithError(f, lexError(t, lineNumber)), FALSE,
                              <<lexError(t, lineNumber)>>)
               /\ UNCHANGED result
               /\ NoTokenCall
          ELSE IF t.typ = tokenIdentifier /\ t.val = tokenName(tokenKeyword) THEN
               /\ TailCall(f, "parseKeyword", 0, <<>>)
               /\ UNCHANGED result
               /\ NoTokenCall
          ELSE IF t.typ = tokenIdentifier /\ t.val = tokenName(tokenStruct) THEN
               /\ TailCall(f, "parseStruct", 0, <<>>)
               /\ UNCHANGED result
               /\ NoTokenCall
          ELSE IF t.typ = tokenIdentifier /\ t.val = tokenName(tokenDClass) THEN
               /\ TailCall(f, "parseClass", 0, <<>>)
               /\ UNCHANGED result
               /\ NoTokenCall
          ELSE IF t.typ = tokenIdentifier \/ t.typ = tokenLeftCurly THEN
               \* p.next(), then the error and expectRightCurly at the new line
               IF parserNextPanics(f) THEN panic(eofNotHandled)
               ELSE LET line == lineNumberAt(nextTokenResult.pos)
                        e == parseError(expectedDeclaration(t), line)
                    IN /\ parserNextDo
                       /\ TailCall(WithError(f, e), "expectRightCurly", line, <<e>>)
                       /\ UNCHANGED result
          ELSE LET e == parseError(expectedDeclaration(t), lineNumber)
               IN /\ ReturnValue(WithError(f, e), TRUE, <<e>>)
                  /\ UNCHANGED result
                  /\ NoTokenCall
    /\ UNCHANGED <<dcf, reported>>
    /\ UNCHANGED <<input, lx, lpc, cont, emitted>>
    /\ UNCHANGED dataVars

missingCurly(leftline) ==
    <<"missing closing curly brace (}) at end of block starting on line ", leftline>>

(* expectRightCurly, parse.go:317-338. *)
expectRightCurly ==
    /\ stack # <<>> /\ Top.fn = "expectRightCurly"
    /\ LET f == Top
           t == nextTokenResult
       IN IF parserNextPanics(f) THEN panic(eofNotHandled)
          ELSE /\ parserNextDo
               /\ IF t.typ # tokenRightCurly /\ t.typ # tokenEOF /\ t.typ # tokenError
                  THEN \* t = p.next() again
                       /\ stack' = SetTop([f EXCEPT !.pc = "loop", !.t = t])
                       /\ UNCHANGED <<retval, produced>>
                  ELSE LET line == lineNumberAt(t.pos)
                           fail == t.typ = tokenEOF \/ t.typ = tokenError
                           errs == (IF t.typ = tokenError THEN <<lexError(t, line)>> ELSE <<>>)
                                   \o (IF fail THEN <<parseError(missingCurly(f.line), line)>>
                                       ELSE <<>>)
                       IN ReturnValue(f, ~fail, errs)
               /\ UNCHANGED result
    /\ UNCHANGED <<dcf, reported>>
    /\ UNCHANGED <<input, lx, lpc, cont, emitted>>
    /\ UNCHANGED dataVars

missingSemicolon == <<"missing semicolon (;) at end of statement">>

(* expectEndline, parse.go:289-312.  pc "start" is the first p.next(), with *)
(* the flag next still true; pc "loop" is a p.next() of the loop, which     *)
(* clears the flag.                                                         *)
expectEndline ==
    /\ stack # <<>> /\ Top.fn = "expectEndline"
    /\ LET f == Top
           t == nextTokenResult
           nextFlag == f.pc = "start"   \* the variable next
       IN IF parserNextPanics(f) THEN panic(eofNotHandled)
          ELSE /\ parserNextDo
               /\ IF t.typ # tokenEndline /\ t.typ # tokenEOF /\ t.typ # tokenError
                  THEN \* t = p.next(); next = false
                       /\ stack' = SetTop([f EXCEPT !.pc = "loop", !.t = t])
                       /\ UNCHANGED <<retval, produced>>
                  ELSE LET line == lineNumberAt(t.pos)
                           fail == t.typ = tokenEOF \/ t.typ = tokenError
                           errs == (IF t.typ = tokenError THEN <<lexError(t, line)>> ELSE <<>>)
                                   \o (IF nextFlag \/ fail
                                       THEN <<parseError(missingSemicolon, f.line)>>
                                       ELSE <<>>)
                       IN ReturnValue(f, ~fail, errs)
               /\ UNCHANGED result
    /\ UNCHANGED <<dcf, reported>>
    /\ UNCHANGED <<input, lx, lpc, cont, emitted>>
    /\ UNCHANGED dataVars

(* parseAtomic, parseMolecular and parseParameter, parse.go:261-284: each  *)
(* returns true and takes no token.                                        *)
parseAtomic    == TRUE
parseMolecular == TRUE
parseParameter == TRUE

expectingField(t) == <<"expecting a field, found ">> \o String(t)

(* parseField, parse.go:237-256. *)
parseField ==
    /\ stack # <<>> /\ Top.fn = "parseField"
    /\ LET f == Top
       IN IF f.pc = "tail" THEN
               /\ stack' = Pop
               /\ UNCHANGED <<retval, produced, result>>
               /\ NoTokenCall
          ELSE IF f.pc = "peek" THEN
               \* switch p.peek().typ
               /\ parserPeekDo
               /\ ReturnValue(f, IF peekTokenResult.typ = tokenLeftParen THEN parseAtomic
                                 ELSE IF peekTokenResult.typ = tokenComposition
                                      THEN parseMolecular
                                 ELSE parseParameter, <<>>)
               /\ UNCHANGED result
          ELSE IF parserNextPanics(f) THEN panic(eofNotHandled)
          ELSE LET t == nextTokenResult
                   line == lineNumberAt(t.pos)
                   e == parseError(expectingField(t), line)
               IN /\ parserNextDo
                  /\ IF t.typ = tokenIdentifier
                     THEN /\ stack' = SetTop([f EXCEPT !.pc = "peek", !.t = t])
                          /\ UNCHANGED <<retval, produced>>
                     ELSE IF isDataTypeToken(t)
                     THEN ReturnValue(f, parseParameter, <<>>)
                     ELSE TailCall(WithError(f, e), "expectEndline", line, <<e>>)
                  /\ UNCHANGED result
    /\ UNCHANGED <<dcf, reported>>
    /\ UNCHANGED <<input, lx, lpc, cont, emitted>>
    /\ UNCHANGED dataVars

incompleteStruct(what) ==
    <<"incomplete 'struct' ", what, ", found EOF">>
missingLeftCurly(t) ==
    <<"missing '{' after 'struct' declaration, found '">> \o String(t) \o <<"'">>

(* parseStructInner, parse.go:175-216.  f.t is the variable t of the       *)
(* routine: the token of line 177, then the token peeked at line 195,      *)
(* which the loop of lines 196-200 tests and never assigns.                *)
parseStructInner ==
    /\ stack # <<>> /\ Top.fn = "parseStructInner"
    /\ LET f == Top
       IN IF f.pc = "tail" THEN
               /\ stack' = Pop
               /\ UNCHANGED <<retval, produced, result>>
               /\ NoTokenCall
          ELSE IF f.pc = "peek" THEN
               \* t = p.peek()
               /\ parserPeekDo
               /\ stack' = SetTop([f EXCEPT !.t = peekTokenResult, !.pc = "loop"])
               /\ UNCHANGED <<retval, produced, result>>
          ELSE IF f.pc = "field" /\ retval = FALSE THEN
               \* if !p.parseField(s) { return false }
               /\ ReturnValue(f, FALSE, <<>>)
               /\ UNCHANGED result
               /\ NoTokenCall
          ELSE IF f.pc \in {"loop", "field"}
                  /\ f.t.typ # tokenRightCurly /\ f.t.typ # tokenEOF
                  /\ f.t.typ # tokenError THEN
               /\ stack' = SetTop([f EXCEPT !.pc = "field"])
                           \o <<Frame("parseField", "start", f.p, 0)>>
               /\ UNCHANGED <<retval, produced, result>>
               /\ NoTokenCall
          ELSE IF parserNextPanics(f) THEN panic(eofNotHandled)
          ELSE LET n == nextTokenResult
                   line == lineNumberAt(n.pos)
               IN /\ parserNextDo
                  /\ UNCHANGED result
                  /\ IF f.pc = "start" THEN
                          IF n.typ = tokenEOF THEN
                               ReturnValue(f, FALSE,
                                   <<parseError(incompleteStruct("declaration"), line)>>)
                          ELSE IF n.typ = tokenError THEN
                               ReturnValue(f, FALSE, <<lexError(n, line)>>)
                          ELSE IF n.typ = tokenLeftCurly THEN
                               /\ stack' = SetTop([f EXCEPT !.t = n, !.pc = "peek"])
                               /\ UNCHANGED <<retval, produced>>
                          ELSE ReturnValue(f, TRUE, <<parseError(missingLeftCurly(n), line)>>)
                     ELSE \* p.next() of line 202, then the switch on t
                          IF f.t.typ = tokenEOF THEN
                               ReturnValue(f, FALSE,
                                   <<parseError(incompleteStruct("definition"), line)>>)
                          ELSE IF f.t.typ = tokenError THEN
                               ReturnValue(f, FALSE, <<lexError(f.t, line)>>)
                          ELSE TailCall(f, "expectEndline", line, <<>>)
    /\ UNCHANGED <<dcf, reported>>
    /\ UNCHANGED <<input, lx, lpc, cont, emitted>>
    /\ UNCHANGED dataVars

---------------------------------------------------------------------------
(* The program: Parse on a text.  The texts are the examples of the schema *)
(* language and every text of up to MaxWords words of ParseWords, a space  *)
(* after each.                                                             *)

(* `dclass A : B { } ; struct B { int8 x; } ;` *)
ForwardReferenceText ==
    <<"d","c","l","a","s","s"," ","A"," ",":"," ","B"," ","{"," ","}"," ",";",
      " ","s","t","r","u","c","t"," ","B"," ","{"," ","i","n","t","8"," ","x",
      ";"," ","}"," ",";">>

(* `dclass A { B x; }` *)
UnresolvedReferenceText ==
    <<"d","c","l","a","s","s"," ","A"," ","{"," ","B"," ","x",";"," ","}">>

(* `struct S { int8 ; int8 y; }` *)
MalformedFieldText ==
    <<"s","t","r","u","c","t"," ","S"," ","{"," ","i","n","t","8"," ",";"," ",
      "i","n","t","8"," ","y",";"," ","}">>

(* `keyword foo;` *)
KeywordText ==
    <<"k","e","y","w","o","r","d"," ","f","o","o",";">>

(* a block the parser skips, with comments and literals *)
CommentedText ==
    <<"/","*"," ","c"," ","*","/"," ","x"," ","{"," ","'","a","'"," ","\"",
      "s","\""," ","3"," ","}"," ","/","/"," ","d","\n">>

(* `{ { } } ;`: a block with a block inside *)
NestedBlockText ==
    <<"{"," ","{"," ","}"," ","}"," ",";">>

(* `struct S { } ; struct S { } ;`: the same struct declared twice *)
DuplicateStructText ==
    <<"s","t","r","u","c","t"," ","S"," ","{"," ","}"," ",";"," ",
      "s","t","r","u","c","t"," ","S"," ","{"," ","}"," ",";">>

ParseSamples ==
    {ForwardReferenceText, UnresolvedReferenceText, MalformedFieldText,
     KeywordText, CommentedText, NestedBlockText, DuplicateStructText}

ParseWords ==
    {W_struct, W_keyword, W_dclass, W_int8, <<"S">>, <<"{">>, <<"}">>, <<";">>,
     <<"#">>, <<"\n">>}

RECURSIVE WordTexts(_)
WordTexts(n) ==
    IF n = 0 THEN {<<>>}
    ELSE LET shorter == WordTexts(n - 1)
         IN shorter \cup {t \o w \o <<" ">> : t \in shorter, w \in ParseWords}

ParseInputs == WordTexts(MaxWords) \cup ParseSamples

(* The state in Parse once p is built, parse.go:21-24, before p.parse(r). *)
Init ==
    /\ \E text \in ParseInputs : lex(text)
    /\ dcf = newFile
    /\ stack = <<Frame("Parse", "call", newParser, 0)>>
    /\ retval = FALSE
    /\ produced = {}
    /\ reported = <<>>
    /\ result = <<>>
    /\ other = newFile
    /\ calls = <<>>

LexerNext ==
    \/ lexAny \/ lexComment \/ lexBlockComment \/ lexSpace
    \/ lexIdentifier \/ lexQuote \/ lexChar \/ lexNumber \/ sendDone

ParserNext == Parse \/ parse \/ parseDeclaration \/ expectRightCurly

Next ==
    \/ lexAny \/ lexComment \/ lexBlockComment \/ lexSpace
    \/ lexIdentifier \/ lexQuote \/ lexChar \/ lexNumber \/ sendDone
    \/ Parse \/ parse \/ parseDeclaration \/ expectRightCurly

Spec == Init /\ [][Next]_vars

(* Both goroutines are scheduled whenever they can run. *)
FairSpec == Spec /\ WF_vars(LexerNext) /\ WF_vars(ParserNext)

---------------------------------------------------------------------------
(* Properties of the lexer and of the token handoff, under SpecLex.        *)

LastOf(s) == s[Len(s)]
IsPrefix(s, t) == Len(s) <= Len(t) /\ s = SubSeq(t, 1, Len(s))

(* C1: the delivered token sequence holds a terminal token (EOF or error)  *)
(* only in its last place; once the terminal token is delivered the lexer  *)
(* goroutine offers nothing more and ends; and when the goroutine has      *)
(* ended, the last delivered token is that one terminal token.             *)
C1_OneTerminalTokenLast ==
    /\ \A i \in 1..(Len(emitted) - 1) : ~IsTerminal(emitted[i])
    /\ \A i \in 1..(Len(sent) - 1) : ~IsTerminal(sent[i])
    /\ (sent # <<>> /\ IsTerminal(LastOf(sent))) =>
           /\ tokens = <<>>
           /\ lpc = "exit" \/ (lpc = "send" /\ cont \in {"nil", "eof"})
    /\ lpc = "exit" => (sent # <<>> /\ IsTerminal(LastOf(sent)))

C1_Witness ==
    /\ lpc = "exit"
    /\ Len(sent) >= 3
    /\ LastOf(sent).typ = tokenError

(* C2: peekToken does not consume.  Every peekToken since the last         *)
(* nextToken returned the one token that follows the tokens nextToken has  *)
(* returned so far, a nextToken after them returns that same token, and    *)
(* the tokens nextToken returns are the delivered tokens in order, however *)
(* many peekToken calls came in between.                                   *)
C2_PeekDoesNotConsume ==
    [][ /\ IsPrefix(returned', sent')
        /\ \A i \in DOMAIN peeks' :
              /\ Len(sent') > Len(returned')
              /\ peeks'[i] = sent'[Len(returned') + 1]
        /\ (peeks # <<>> /\ returned' # returned) =>
              LastOf(returned') = LastOf(peeks) ]_vars

C2_Witness ==
    /\ Len(peeks) >= 2
    /\ Len(returned) >= 2
    /\ ~IsTerminal(peeks[1])

(* C3: tokens come strictly left to right.  The text of every token but an *)
(* error token is the input at its position, every token starts at or      *)
(* after the end of the one before it and at a greater position, and the   *)
(* EOF token is empty and sits at the end of the input.                    *)
C3_LeftToRight ==
    \A i \in DOMAIN sent :
        LET t == sent[i]
        IN /\ t.typ # tokenError =>
                 /\ t.pos + Len(t.val) <= Len(input)
                 /\ t.val = Slice(t.pos, t.pos + Len(t.val))
           /\ i > 1 =>
                 /\ t.pos >= sent[i - 1].pos + Len(sent[i - 1].val)
                 /\ t.pos > sent[i - 1].pos
           /\ t.typ = tokenEOF => (t.val = <<>> /\ t.pos = Len(input))

C3_Witness ==
    /\ Len(sent) >= 3
    /\ LastOf(sent).typ = tokenEOF
    /\ sent[2].pos > sent[1].pos + Len(sent[1].val)

(* C4: the handoff holds one token.  While a token is on offer the lexer   *)
(* goroutine is blocked in that send; at most one token the lexer has      *)
(* started to send is not yet taken, at most one taken token is not yet    *)
(* returned by nextToken and it is the cached peek token; the tokens taken *)
(* and the tokens returned are the tokens sent, each once and in order.    *)
C4_OneSlotHandoff ==
    /\ tokens # <<>> => (lpc = "send" /\ tokens = <<LastOf(emitted)>>)
    /\ Len(emitted) - Len(sent) = (IF tokens # <<>> THEN 1 ELSE 0)
    /\ IsPrefix(sent, emitted)
    /\ Len(sent) - Len(returned) = (IF hasPeeked THEN 1 ELSE 0)
    /\ hasPeeked => peekedToken = LastOf(sent)
    /\ IsPrefix(returned, sent)

C4_Witness ==
    /\ hasPeeked
    /\ tokens # <<>>
    /\ Len(returned) >= 1

---------------------------------------------------------------------------
(* Properties of Parse, under Spec and FairSpec.                           *)

(* Parse has returned to its caller. *)
Returned == result # <<>> /\ "dcf" \in DOMAIN result[1]

(* The last token the parser was given is a lex error. *)
EndsWithLexError == sent # <<>> /\ LastOf(sent).typ = tokenError

(* C5: for every text, Parse eventually returns. *)
C5_ParseReturns == <>Returned

(* C6: when the token stream ended with a lex-error token, the error list  *)
(* that parse() inspects after the declaration loop holds a lex-error      *)
(* diagnostic for that token.                                              *)
C6_LexErrorRecorded ==
    (Returned /\ EndsWithLexError) =>
        \E i \in DOMAIN reported :
            reported[i].kind = "lex" /\ reported[i].msg = LastOf(sent).val

(* C7: when a diagnostic was produced while parsing, Parse does not return *)
(* a non-nil File together with a nil error.                               *)
C7_FailureReachesCaller ==
    (Returned /\ produced # {}) =>
        (result[1].dcf = "nil" \/ result[1].err # "nil")

(* A field of that name is defined, in the File or in one of its types. *)
FieldDefined(name) ==
    \/ \E i \in DOMAIN dcf.Fields : dcf.Fields[i].name = name
    \/ \E c \in DOMAIN dcf.Classes :
          \E j \in DOMAIN dcf.Classes[c].fields : dcf.Classes[c].fields[j].name = name

(* C8: for `struct S { int8 ; int8 y; }` the parse ends with exactly one   *)
(* parse diagnostic and with the later field y defined.                    *)
C8_MalformedFieldRecovered ==
    (input = MalformedFieldText) =>
        <>( /\ Returned
            /\ Len(reported) = 1
            /\ reported[1].kind = "parse"
            /\ FieldDefined(<<"y">>) )

(* C9: for `dclass A : B { } ; struct B { int8 x; } ;`, where B is used    *)
(* before it is declared, the parse ends with no definition error.         *)
C9_ForwardReferenceResolved ==
    (input = ForwardReferenceText) =>
        <>( /\ Returned
            /\ \A i \in DOMAIN reported : reported[i].kind # "definition" )

(* C10: for `dclass A { B x; }`, where B is never declared, the parse ends *)
(* with exactly one definition error, naming B, the kind struct and line 1 *)
(* of its first use.                                                       *)
C10_UnresolvedReferenceReported ==
    (input = UnresolvedReferenceText) =>
        <>( /\ Returned
            /\ \E i \in DOMAIN reported :
                  /\ reported[i] = definitionError(<<"B">>, tokenStruct, 1)
                  /\ \A j \in DOMAIN reported :
                        reported[j].kind = "definition" => j = i )

---------------------------------------------------------------------------
(* parse() on a parser whose pending maps hold names, parse.go:50-82.      *)
(* The expectedFoo maps are Go maps from a name to the line of its first   *)
(* use; `range` over a Go map visits the entries in an order the runtime   *)
(* picks anew each time.                                                   *)

MaxPending == 2   \* most names pending in the three maps together

PendingNames == {<<"A">>, <<"B">>, <<"C">>}
PendingLines == 1..MaxPending
PendingKinds == {tokenKeyword, tokenStruct, tokenDClass}

(* The maps from some of the names to the line of their first use. *)
PendingMaps ==
    UNION { [names -> PendingLines] :
            names \in {n \in SUBSET PendingNames : Cardinality(n) <= MaxPending} }

PendingParsers ==
    { [newParser EXCEPT !.expectedKeywords = ek, !.expectedStructs = es,
                        !.expectedClasses = ec] :
      ek \in PendingMaps, es \in PendingMaps, ec \in PendingMaps }

PendingTexts == {<<>>, <<"#">>, CommentedText}

(* parse is entered with the lexer of the text started, parse.go:26. *)
InitPending ==
    /\ \E text \in PendingTexts : lex(text)
    /\ \E p \in PendingParsers :
          /\ Cardinality(DOMAIN p.expectedKeywords) + Cardinality(DOMAIN p.expectedStructs)
               + Cardinality(DOMAIN p.expectedClasses) <= MaxPending
          /\ stack = <<Frame("parse", "loop", p, 0)>>
    /\ dcf = newFile
    /\ retval = FALSE
    /\ produced = {}
    /\ reported = <<>>
    /\ result = <<>>
    /\ other = newFile
    /\ calls = <<>>

NextPending ==
    \/ lexAny \/ lexComment \/ lexBlockComment \/ lexSpace
    \/ lexIdentifier \/ lexQuote \/ lexChar \/ lexNumber \/ sendDone
    \/ parse \/ parseDeclaration \/ expectRightCurly

SpecPending == InitPending /\ [][NextPending]_vars

---------------------------------------------------------------------------
(* Properties of the report of parse(), under SpecPending.                 *)

(* The kind (keyword, struct or dclass) a definition error names. *)
IsDefinitionErrorOf(e, typ) ==
    \E n \in PendingNames, l \in PendingLines : e = definitionError(n, typ, l)

(* parse() has returned: its frame is gone and reported is what it saw. *)
ParseReturned == stack = <<>> /\ result = <<>>

---------------------------------------------------------------------------
(* The Files, File.go.  dcf and other are two File objects; a *File is the *)
(* name of the variable that holds the object.  A test or a client of the  *)
(* package calls AddType, addField and Hash on them in any order.          *)

MaxCalls == 3   \* most calls made on the Files and keyword lists in one run

Files == {"dcf", "other"}
FileOf(f) == IF f = "dcf" THEN dcf ELSE other

TypeNames == {<<"A">>, <<"B">>}
TypeKinds == {"class", "struct", "enum"}

(* make(map[string]Type): a File literal with its map made, where          *)
(* new(File) leaves it nil.                                                *)
madeMap == [isNil |-> FALSE, entries |-> <<>>]
madeFile == [newFile EXCEPT !.ClassByName = madeMap]

(* len(f.Classes), File.go:26 and 34. *)
typeIndexConstant(file) == 0
typeIndex(file) == Len(file.Classes)

(* new(Class) or new(Struct) with dcf, name and index set, File.go:23-26. *)
newType(f, name, typ) ==
    [kind |-> IF typ = "class" THEN "Class" ELSE "Struct",
     dcf |-> f, name |-> name, index |-> typeIndex(FileOf(f))]

(* f.ClassByName[name] = t on a map that was made. *)
mapStore(cbn, name, t) ==
    [cbn EXCEPT !.entries = [n \in DOMAIN cbn.entries \cup {name} |->
                                IF n = name THEN t ELSE cbn.entries[n]]]

nilMapAssignment == "assignment to entry in nil map"

(* A call panicked and nothing recovers: the run is over. *)
Panicked == calls # <<>> /\ calls[Len(calls)].panicked

CanCall == Len(calls) < MaxCalls /\ ~Panicked

(* The File f becomes file; the other File stays. *)
SetFile(f, file) ==
    /\ dcf' = IF f = "dcf" THEN file ELSE dcf
    /\ other' = IF f = "other" THEN file ELSE other

(* The variables of the lexer and of the parser, which no call on a File   *)
(* touches.                                                                *)
DataFrame ==
    /\ UNCHANGED lexVars
    /\ UNCHANGED clientVars
    /\ UNCHANGED <<stack, retval, produced, reported, result>>

(* File.AddType, File.go:20-41. *)
AddType ==
    /\ CanCall
    /\ \E f \in Files, name \in TypeNames, typ \in TypeKinds :
          LET file == FileOf(f)
              t == newType(f, name, typ)
              appended == [file EXCEPT !.Classes = Append(@, t)]
          IN IF typ \notin {"class", "struct"}
             THEN \* default: return nil
                  /\ calls' = Append(calls, [op |-> "AddType", f |-> f, name |-> name,
                                             typ |-> typ, made |-> <<>>,
                                             panicked |-> FALSE, ret |-> "nil"])
                  /\ UNCHANGED <<dcf, other>>
             ELSE IF file.ClassByName.isNil
             THEN \* the append is done, the map store panics
                  /\ SetFile(f, appended)
                  /\ calls' = Append(calls, [op |-> "AddType", f |-> f, name |-> name,
                                             typ |-> typ, made |-> <<t>>,
                                             panicked |-> TRUE, ret |-> nilMapAssignment])
             ELSE /\ SetFile(f, [appended EXCEPT !.ClassByName = mapStore(@, name, t)])
                  /\ calls' = Append(calls, [op |-> "AddType", f |-> f, name |-> name,
                                             typ |-> typ, made |-> <<t>>,
                                             panicked |-> FALSE, ret |-> t])
    /\ DataFrame

(* File.addField, File.go:46-48: `return 0`. *)
addFieldResult == 0

addField ==
    /\ CanCall
    /\ \E f \in Files :
          calls' = Append(calls, [op |-> "addField", f |-> f, made |-> <<>>,
                                  panicked |-> FALSE, ret |-> addFieldResult])
    /\ UNCHANGED <<dcf, other>>
    /\ DataFrame

(* File.Hash, File.go:14-16: `return 0`. *)
HashOfPointer(f) == IF f = "dcf" THEN 1 ELSE 2
Hash(f) == 0

InitFiles ==
    /\ lex(<<>>)
    /\ dcf \in {newFile, madeFile}
    /\ other \in {newFile, madeFile}
    /\ stack = <<>>
    /\ retval = FALSE
    /\ produced = {}
    /\ reported = <<>>
    /\ result = <<>>
    /\ calls = <<>>

NextFiles == AddType \/ addField

SpecFiles == InitFiles /\ [][NextFiles]_vars

---------------------------------------------------------------------------
(* Properties of the Files, under SpecFiles.                               *)

(* The Types the AddType calls on f have created, in the order of the      *)
(* calls, each as it was when it was created.                              *)
CreatedBy(f) ==
    LET made == SelectSeq(calls, LAMBDA c : c.op = "AddType" /\ c.f = f /\ c.made # <<>>)
    IN [i \in 1..Len(made) |-> made[i].made[1]]

(* C12: after any sequence of AddType calls, f.Classes holds the Types in  *)
(* the order of their creation, unchanged since, and the i-th of them      *)
(* (from 0) has index i.                                                   *)
C12_TypeIndexIsCreationOrder ==
    \A f \in Files :
        /\ FileOf(f).Classes = CreatedBy(f)
        /\ \A i \in DOMAIN FileOf(f).Classes : FileOf(f).Classes[i].index = i - 1

C12_Witness ==
    /\ Len(dcf.Classes) >= 2
    /\ Len(other.Classes) >= 1
    /\ ~Panicked

(* C13: after any sequence of AddType calls, no two Types of a File,      *)
(* classes and structs together, have the same name.                       *)
C13_TypeNamesUnique ==
    \A f \in Files :
        \A i, j \in DOMAIN FileOf(f).Classes :
            FileOf(f).Classes[i].name = FileOf(f).Classes[j].name => i = j

(* The addField calls made on f, in order. *)
FieldCalls(f) == SelectSeq(calls, LAMBDA c : c.op = "addField" /\ c.f = f)

(* C14: the i-th addField call on a File (from 0) returns i, so the        *)
(* numbers are distinct and increasing, and f.Fields holds one field for   *)
(* each call.                                                              *)
C14_FieldNumbersUnique ==
    \A f \in Files :
        /\ Len(FileOf(f).Fields) = Len(FieldCalls(f))
        /\ \A i \in DOMAIN FieldCalls(f) : FieldCalls(f)[i].ret = i - 1

(* What of a File is declared: the kind, name and index of its Types in    *)
(* order, its fields and its keywords; not the File a Type points back to. *)
Declarations(f) ==
    [types    |-> [i \in DOMAIN FileOf(f).Classes |->
                      [kind  |-> FileOf(f).Classes[i].kind,
                       name  |-> FileOf(f).Classes[i].name,
                       index |-> FileOf(f).Classes[i].index]],
     fields   |-> FileOf(f).Fields,
     keywords |-> FileOf(f).keywords]

(* C19: two Files built from the same declarations in the same order have  *)
(* the same Hash, whichever objects they are.                              *)
C19_HashDeterministic ==
    Declarations("dcf") = Declarations("other") => Hash("dcf") = Hash("other")

C19_Witness ==
    /\ Declarations("dcf") = Declarations("other")
    /\ Len(dcf.Classes) >= 1
    /\ dcf # other

(* C20: two Files with as many Types, which differ in the name or the      *)
(* order of their Types, have different Hash values.                       *)
C20_HashSensitive ==
    ( /\ Len(dcf.Classes) = Len(other.Classes)
      /\ Declarations("dcf").types # Declarations("other").types )
    => Hash("dcf") # Hash("other")

---------------------------------------------------------------------------
(* Keyword lists, types.go:69-117.  `keywords` is a string slice; a File   *)
(* embeds one (File.go:9), so dcf.keywords and other.keywords are the two  *)
(* lists.  Every method has the value receiver `func (k keywords)`: it     *)
(* works on a copy of the slice header.                                    *)

MaxKeywords     == 2   \* longest keyword list a run starts with
MaxKeywordCalls == 2   \* most calls made on the keyword lists in one run

K_required  == <<"r","e","q","u","i","r","e","d">>
K_ram       == <<"r","a","m">>
K_db        == <<"d","b">>

(* definedKeywords, Class.go:3-13. *)
definedKeywords ==
    <<K_required, K_ram,
      <<"b","r","o","a","d","c","a","s","t">>,
      <<"c","l","r","e","c","v">>, <<"c","l","s","e","n","d">>,
      <<"o","w","n","r","e","c","v">>, <<"o","w","n","s","e","n","d">>,
      <<"a","i","r","e","c","v">>, K_db>>

(* The keywords the runs use. *)
KeywordUniverse == {K_required, K_ram, K_db}

(* keywords.HasKeyword, types.go:100-107. *)
HasKeyword(k, keyword) == \E i \in DOMAIN k : k[i] = keyword

(* keywords.Keywords, types.go:110-112. *)
Keywords(k) == k

(* keywords.NumKeywords, types.go:115-117. *)
NumKeywords(k) == Len(k)

(* The local slice k of AddKeyword when it returns, types.go:74-76. *)
addKeywordLocal(k, keyword) ==
    IF ~HasKeyword(k, keyword) THEN Append(k, keyword) ELSE k

(* The caller's list after list.AddKeyword(keyword): the receiver was      *)
(* copied, so the slice the caller holds keeps its length and its entries. *)
receiverAfterImplying(k, keyword) ==
    IF keyword = K_required /\ ~HasKeyword(k, K_ram) THEN Append(k, K_ram) ELSE k
receiverAfter(k, keyword) == k

(* keywords.CompareKeywords, types.go:87-97. *)
compareBySubset(k, list) == \A i \in DOMAIN k : HasKeyword(list, k[i])
compare(k, list) ==
    IF Len(k) # Len(Keywords(list)) THEN FALSE
    ELSE \A i \in DOMAIN k : HasKeyword(list, k[i])

SetKeywords(f, k) == SetFile(f, [FileOf(f) EXCEPT !.keywords = k])

CanCallKeywords == Len(calls) < MaxKeywordCalls

(* list.AddKeyword(keyword), types.go:73-77. *)
AddKeyword ==
    /\ CanCallKeywords
    /\ \E f \in Files, keyword \in KeywordUniverse :
          LET k == FileOf(f).keywords
          IN /\ SetKeywords(f, receiverAfter(k, keyword))
             /\ calls' = Append(calls, [op |-> "AddKeyword", f |-> f, arg |-> keyword,
                                        pre |-> k, panicked |-> FALSE,
                                        ret |-> addKeywordLocal(k, keyword)])
    /\ DataFrame

(* The receiver after k.AddKeyword of each keyword of list in turn. *)
RECURSIVE receiverAfterAll(_, _)
receiverAfterAll(k, list) ==
    IF list = <<>> THEN k
    ELSE receiverAfterAll(receiverAfter(k, list[1]), SubSeq(list, 2, Len(list)))

(* list.AddKeywords(list2), types.go:80-84. *)
AddKeywords ==
    /\ CanCallKeywords
    /\ \E f \in Files, g \in Files :
          LET k == FileOf(f).keywords
          IN /\ SetKeywords(f, receiverAfterAll(k, Keywords(FileOf(g).keywords)))
             /\ calls' = Append(calls, [op |-> "AddKeywords", f |-> f, arg |-> g,
                                        pre |-> k, panicked |-> FALSE, ret |-> <<>>])
    /\ DataFrame

(* list.CompareKeywords(list2), types.go:87-97. *)
CompareKeywords ==
    /\ CanCallKeywords
    /\ \E f \in Files, g \in Files :
          calls' = Append(calls, [op |-> "CompareKeywords", f |-> f, arg |-> g,
                                  pre |-> FileOf(f).keywords, panicked |-> FALSE,
                                  ret |-> compare(FileOf(f).keywords, FileOf(g).keywords)])
    /\ UNCHANGED <<dcf, other>>
    /\ DataFrame

(* The lists without a repeated keyword, which is how AddKeyword keeps a   *)
(* list (types.go:74), of up to n keywords.                                *)
RECURSIVE KeywordLists(_)
KeywordLists(n) ==
    IF n = 0 THEN {<<>>}
    ELSE LET shorter == KeywordLists(n - 1)
         IN shorter \cup {Append(k, w) : k \in shorter, w \in KeywordUniverse}

UniqueKeywordLists ==
    {k \in KeywordLists(MaxKeywords) : \A i, j \in DOMAIN k : k[i] = k[j] => i = j}

InitKeywords ==
    /\ lex(<<>>)
    /\ \E k \in UniqueKeywordLists : dcf = [newFile EXCEPT !.keywords = k]
    /\ \E k \in UniqueKeywordLists : other = [newFile EXCEPT !.keywords = k]
    /\ stack = <<>>
    /\ retval = FALSE
    /\ produced = {}
    /\ reported = <<>>
    /\ result = <<>>
    /\ calls = <<>>

NextKeywords == AddKeyword \/ AddKeywords \/ CompareKeywords

SpecKeywords == InitKeywords /\ [][NextKeywords]_vars

---------------------------------------------------------------------------
(* Properties of the keyword lists, under SpecKeywords.                    *)

LastCall == calls[Len(calls)]
LastCallIs(op) == calls # <<>> /\ LastCall.op = op

(* C15: after list.AddKeyword(k) the list has k, and it has one keyword    *)
(* more than before if k was absent and as many if k was present.          *)
C15_AddKeywordAdds ==
    LastCallIs("AddKeyword") =>
        LET now == FileOf(LastCall.f).keywords
        IN /\ HasKeyword(now, LastCall.arg)
           /\ NumKeywords(now) = NumKeywords(LastCall.pre)
                                 + (IF HasKeyword(LastCall.pre, LastCall.arg) THEN 0 ELSE 1)

C17_AddKeywordFrame ==
    LastCallIs("AddKeyword") =>
        \A k2 \in KeywordUniverse \ {LastCall.arg} :
            HasKeyword(FileOf(LastCall.f).keywords, k2) = HasKeyword(LastCall.pre, k2)

C17_Witness ==
    /\ LastCallIs("AddKeyword")
    /\ LastCall.arg = K_required
    /\ ~HasKeyword(LastCall.pre, K_required)
    /\ HasKeyword(FileOf(LastCall.f).keywords, K_db)
    /\ ~HasKeyword(FileOf(LastCall.f).keywords, K_ram)

---------------------------------------------------------------------------
(* A property of the File that Parse returns, under Spec.                  *)

(* C18: the File Parse returns has each of the nine built-in keywords.     *)
C18_BuiltinKeywordsDeclared ==
    (Returned /\ result[1].dcf = "File") =>
        \A i \in DOMAIN definedKeywords : HasKeyword(dcf.keywords, definedKeywords[i])

---------------------------------------------------------------------------
(* The field codec of a Parameter of type uint32 with no Range.  Field.go  *)
(* declares FormatData and ParseString (Field.go:44-50) and no type of the *)
(* package implements them, so the two are modelled from the codec         *)
(* contract of the specification: an integer is packed fixed-width and     *)
(* little-endian, and its text is its decimal literal.  A packed uint32 is *)
(* four bytes, least significant first; the arithmetic goes byte by byte,  *)
(* so no value leaves the width.                                           *)

CodecBytes   == {0, 1, 9, 10, 255}
PackedValues == {<<b1, b2, b3, b4>> : b1 \in CodecBytes, b2 \in CodecBytes,
                                      b3 \in CodecBytes, b4 \in CodecBytes}
digitRunes   == <<"0", "1", "2", "3", "4", "5", "6", "7", "8", "9">>

(* The packed value divided by ten: quotient bytes and remainder. *)
divMod10(b) ==
    LET c4 == b[4]
        c3 == (c4 % 10) * 256 + b[3]
        c2 == (c3 % 10) * 256 + b[2]
        c1 == (c2 % 10) * 256 + b[1]
    IN [q |-> <<c1 \div 10, c2 \div 10, c3 \div 10, c4 \div 10>>, r |-> c1 % 10]

RECURSIVE decimalText(_)
decimalText(b) ==
    IF b = <<0, 0, 0, 0>> THEN <<>>
    ELSE LET d == divMod10(b) IN decimalText(d.q) \o <<digitRunes[d.r + 1]>>

(* Field.FormatData(data, showFieldNames) of the Parameter called name. *)
FormatDataFn(name, data, showFieldNames) ==
    LET text == IF data = <<0, 0, 0, 0>> THEN <<"0">> ELSE decimalText(data)
    IN IF showFieldNames THEN name \o <<" ", "=", " ">> \o text ELSE text

(* The packed value times ten plus the digit d, and whether it left the    *)
(* four bytes.                                                             *)
mulAddNoCarry(b, d) ==
    [b |-> <<(b[1] * 10 + d) % 256, (b[2] * 10) % 256,
             (b[3] * 10) % 256, (b[4] * 10) % 256>>,
     overflow |-> (b[4] * 10) \div 256 > 0]
mulAdd(b, d) ==
    LET c1 == b[1] * 10 + d
        c2 == b[2] * 10 + c1 \div 256
        c3 == b[3] * 10 + c2 \div 256
        c4 == b[4] * 10 + c3 \div 256
    IN [b |-> <<c1 % 256, c2 % 256, c3 % 256, c4 % 256>>,
        overflow |-> c4 \div 256 > 0]

(* A codec error: no data, and an error value. *)
codecError == [data |-> <<>>, err |-> TRUE]

RECURSIVE parseDigits(_, _)
parseDigits(s, acc) ==
    IF s = <<>> THEN [data |-> acc, err |-> FALSE]
    ELSE IF s[1] \notin decimalDigits THEN codecError
    ELSE LET m == mulAdd(acc, CHOOSE d \in 0..9 : digitRunes[d + 1] = s[1])
         IN IF m.overflow THEN codecError
            ELSE parseDigits(SubSeq(s, 2, Len(s)), m.b)

(* Field.ParseString(s): the value is the literal after the last space,    *)
(* which is all of s when FormatData showed no field name.                 *)
ParseStringFn(s) ==
    LET spaces == {i \in DOMAIN s : s[i] = " "}
        from   == IF spaces = {} THEN 1
                  ELSE CHOOSE i \in spaces : \A j \in spaces : j <= i
        value  == IF spaces = {} THEN s ELSE SubSeq(s, from + 1, Len(s))
    IN IF value = <<>> THEN codecError ELSE parseDigits(value, <<0, 0, 0, 0>>)

(* Texts that no FormatData of a uint32 gives. *)
CodecTexts ==
    { <<>>, <<"a">>, <<"1", "a">>, <<"0", "7">>,
      <<"4","2","9","4","9","6","7","2","9","6">> }

FormatData ==
    /\ calls = <<>>
    /\ \E data \in PackedValues, showFieldNames \in BOOLEAN :
          calls' = <<[op |-> "FormatData", arg |-> data, show |-> showFieldNames,
                      ret |-> FormatDataFn(<<"x">>, data, showFieldNames)]>>
    /\ UNCHANGED <<dcf, other>>
    /\ DataFrame

ParseString ==
    /\ Len(calls) = 1
    /\ \E s \in {calls[1].ret} \cup CodecTexts :
          calls' = Append(calls, [op |-> "ParseString", arg |-> s,
                                  ret |-> ParseStringFn(s)])
    /\ UNCHANGED <<dcf, other>>
    /\ DataFrame

InitCodec ==
    /\ lex(<<>>)
    /\ dcf = newFile
    /\ other = newFile
    /\ stack = <<>>
    /\ retval = FALSE
    /\ produced = {}
    /\ reported = <<>>
    /\ result = <<>>
    /\ calls = <<>>

NextCodec == FormatData \/ ParseString

SpecCodec == InitCodec /\ [][NextCodec]_vars

---------------------------------------------------------------------------
(* A property of the field codec, under SpecCodec.                         *)

(* C21: for a uint32 Parameter with no Range and every packed value b,     *)
(* ParseString(FormatData(b, false)) returns b and no error.               *)
C21_CodecRoundTrip ==
    (Len(calls) = 2 /\ ~calls[1].show /\ calls[2].arg = calls[1].ret) =>
        calls[2].ret = [data |-> calls[1].arg, err |-> FALSE]

C21_Witness ==
    /\ Len(calls) = 2
    /\ ~calls[1].show
    /\ calls[1].arg = <<255, 255, 255, 255>>
    /\ calls[2].arg = <<"4","2","9","4","9","6","7","2","9","5">>
    /\ calls[2].ret = [data |-> <<255, 255, 255, 255>>, err |-> FALSE]

---------------------------------------------------------------------------
(* Properties of the tokens of the lexer, under SpecLex.                   *)

(* How many of the first n tokens the lexer sent have the type typ. *)
CountTo(n, typ) == Cardinality({i \in 1..n : emitted[i].typ = typ})
OpenParens(n) == CountTo(n, tokenLeftParen) - CountTo(n, tokenRightParen)
LexerDone == lpc = "exit"

RuneAt(i) == IF i < Len(input) THEN input[i + 1] ELSE eof
RunEnd(from, digits) ==
    Least({e \in from..Len(input) : RuneAt(e) \notin digits})
LiteralEnd(s) ==
    LET hex == RuneAt(s) = "0" /\ RuneAt(s + 1) \in {"x", "X"}
        bin == RuneAt(s) = "0" /\ RuneAt(s + 1) \in {"b", "B"}
        oct == RuneAt(s) = "0" /\ ~hex /\ ~bin
        e   == IF hex THEN RunEnd(s + 2, hexadecimalDigits)
               ELSE IF bin THEN RunEnd(s + 2, binaryDigits)
               ELSE IF oct THEN RunEnd(s + 1, octalDigits)
               ELSE RunEnd(s, decimalDigits)
    IN IF ~hex /\ ~bin /\ ~oct /\ RuneAt(e) = "."
       THEN RunEnd(e + 1, decimalDigits) ELSE e

(* lexNumber has scanned and is sending the token LastOf(emitted). *)
NumberScanned == lpc = "send" /\ lx.state = "lexNumber"

(* C23: when the rune right after a number literal is a letter, '_' or a   *)
(* digit, lexNumber sends no number token for the literal: it sends the    *)
(* error 'bad number syntax' quoting the literal with that rune, and the   *)
(* lexer stops after it.  No number token is ever followed by such a rune. *)
C23_BadNumberSyntax ==
    /\ NumberScanned =>
          LET t == LastOf(emitted)
              e == LiteralEnd(t.pos)
          IN isAlphaNumeric(RuneAt(e)) =>
                /\ t = [typ |-> tokenError, pos |-> t.pos,
                        val |-> <<"bad number syntax: ", "\"">>
                                \o Slice(t.pos, e + 1) \o <<"\"">>]
                /\ cont = "nil"
    /\ \A i \in DOMAIN emitted :
          emitted[i].typ = tokenNumber =>
             ~isAlphaNumeric(RuneAt(emitted[i].pos + Len(emitted[i].val)))

C23_Witness ==
    /\ input = <<"0", "b", "1", "2">>
    /\ LexerDone
    /\ emitted = << [typ |-> tokenError, pos |-> 0,
                     val |-> <<"bad number syntax: ", "\"", "0", "b", "1", "2", "\"">>] >>

(* A word: runes of an identifier, the first of them no digit. *)
IsWord(val) ==
    /\ val # <<>>
    /\ \A i \in DOMAIN val : isAlphaNumeric(val[i])
    /\ val[1] \notin decimalDigits

(* C24: the type of a word token follows from its text: the type the key   *)
(* map gives a declaration keyword or a data-type name, tokenBool for      *)
(* 'true' and 'false', tokenIdentifier for every other word; and only      *)
(* words get these types.                                                  *)
C24_WordsClassifiedByText ==
    \A i \in DOMAIN emitted :
        LET t == emitted[i]
        IN /\ (t.typ # tokenError /\ IsWord(t.val)) =>
                 t.typ = IF t.val \in DOMAIN key THEN key[t.val]
                         ELSE IF t.val \in {W_true, W_false} THEN tokenBool
                         ELSE tokenIdentifier
           /\ (t.typ \in {tokenBool, tokenIdentifier} \/ t.typ > tokenKeyDelim) =>
                 IsWord(t.val)

C24_Witness ==
    /\ LexerDone
    /\ Len(emitted) = 19
    /\ [i \in 1..19 |-> emitted[i].typ] =
          << tokenKeyword, tokenDClass, tokenStruct, tokenInt8, tokenInt16,
             tokenInt32, tokenInt64, tokenUint8, tokenUint16, tokenUint32,
             tokenUint64, tokenFloat, tokenString, tokenBlob, tokenChar,
             tokenBool, tokenBool, tokenIdentifier, tokenEOF >>
    /\ emitted[18].val = <<"t", "r", "u", "t", "h">>

(* The runes of a quoted literal that opens at offset s, read from the     *)
(* text: a rune is escaped when an odd number of backslashes stands right  *)
(* before it inside the literal; the literal closes at the first quote     *)
(* that is not escaped, unless a newline comes first.                      *)
BackslashesBefore(s, i) ==
    Cardinality({k \in 1..(i - s - 1) : \A j \in 1..k : RuneAt(i - j) = "\\"})
Closes(s, quote) ==
    {e \in (s + 1)..(Len(input) - 1) :
        RuneAt(e) = quote /\ BackslashesBefore(s, e) % 2 = 0}
Terminated(s, quote) ==
    /\ Closes(s, quote) # {}
    /\ \A n \in (s + 1)..Least(Closes(s, quote)) : RuneAt(n) # "\n"

QuotedKinds ==
    { [state |-> "lexQuote", quote |-> "\"", typ |-> tokenQuote,
       msg |-> <<"unterminated string">>],
      [state |-> "lexChar", quote |-> "'", typ |-> tokenRawchar,
       msg |-> <<"unterminated character constant">>] }

(* C25: a string or character literal whose closing quote does not come    *)
(* before the end of the input or a newline yields the error              *)
(* 'unterminated ...' as the last token and no literal token; otherwise    *)
(* the token is the text up to the first quote that no backslash escapes,  *)
(* escaped runes included.                                                 *)
C25_QuotedLiterals ==
    \A k \in QuotedKinds :
        (lpc = "send" /\ lx.state = k.state) =>
            LET t == LastOf(emitted)
            IN IF Terminated(t.pos, k.quote)
               THEN t = [typ |-> k.typ, pos |-> t.pos,
                         val |-> Slice(t.pos, Least(Closes(t.pos, k.quote)) + 1)]
               ELSE /\ t = [typ |-> tokenError, pos |-> t.pos, val |-> k.msg]
                    /\ cont = "nil"

(* The backslash makes the second quote part of the literal, which then    *)
(* runs to the end of the input.                                           *)
C25_Witness ==
    /\ input = <<"\"", "\\", "\"">>
    /\ LexerDone
    /\ emitted = << [typ |-> tokenError, pos |-> 0,
                     val |-> <<"unterminated string">>] >>

OpenCurlies(n) == CountTo(n, tokenLeftCurly) - CountTo(n, tokenRightCurly)

(* C26: EOF is sent only with as many '}' as '{' sent; when the lexer      *)
(* looks for a token at the end of the input with a '{' open, its last     *)
(* token is an error; a '}' with no '{' open is sent and the error         *)
(* 'unexpected right curly' is the next and last token.                    *)
C26_EOFOnlyWithCurliesBalanced ==
    /\ (emitted # <<>> /\ LastOf(emitted).typ = tokenEOF) =>
          OpenCurlies(Len(emitted)) = 0
    /\ (LexerDone /\ OpenCurlies(Len(emitted)) > 0) =>
          LastOf(emitted).typ = tokenError
    /\ \A i \in DOMAIN emitted :
          (emitted[i].typ = tokenRightCurly /\ OpenCurlies(i) < 0) =>
             /\ Len(emitted) <= i + 1
             /\ LexerDone => Len(emitted) = i + 1
             /\ Len(emitted) = i + 1 =>
                   /\ emitted[i + 1].typ = tokenError
                   /\ emitted[i + 1].val = <<"unexpected right curly ", "}">>

ArrayText == <<"i","n","t","8"," ","x","[","3","]",";">>

(* C27: after the tokens '[' N ']' of an array suffix the lexer goes on    *)
(* with the rest of the input as it would without the suffix: the text     *)
(* int8 x[3]; ends with the ';' token and EOF, and the error for a '['     *)
(* without its ']' is not sent while every '[' sent has its ']' sent.      *)
C27_LexingGoesOnAfterArraySuffix ==
    /\ (LexerDone /\ input = ArrayText) =>
          /\ Len(emitted) = 7
          /\ emitted[6] = [typ |-> tokenEndline, pos |-> 9, val |-> <<";">>]
          /\ emitted[7] = [typ |-> tokenEOF, pos |-> 10, val |-> <<>>]
    /\ \A i \in DOMAIN emitted :
          ( /\ emitted[i].typ = tokenError
            /\ emitted[i].val =
                  <<"found opening '[' without matching ']' for array type definition.">> ) =>
             CountTo(i, tokenLeftSquare) > CountTo(i, tokenRightSquare)

(* C28: the square-bracket depth of the lexer is 0 or 1 in every state.    *)
C28_SquareDepthAtMostOne == lx.squareDepth \in {0, 1}

(* C29: a literal of decimal digits, one '.', and decimal digits, followed *)
(* by a rune that is no letter, digit or '_', is sent as one number token  *)
(* whose text is the whole literal.                                        *)
C29_FractionIsOneNumber ==
    NumberScanned =>
        LET t  == LastOf(emitted)
            e1 == RunEnd(t.pos, decimalDigits)
            e2 == RunEnd(e1 + 1, decimalDigits)
        IN ( /\ e1 > t.pos
             /\ RuneAt(e1) = "."
             /\ e2 > e1 + 1
             /\ ~isAlphaNumeric(RuneAt(e2)) ) =>
               t = [typ |-> tokenNumber, pos |-> t.pos, val |-> Slice(t.pos, e2)]

---------------------------------------------------------------------------
(* A property of parseDeclaration, under Spec.                             *)

DeclarationRoutine(typ) ==
    IF typ = tokenKeyword THEN "parseKeyword"
    ELSE IF typ = tokenStruct THEN "parseStruct"
    ELSE "parseClass"

(* C30: when the token parseDeclaration peeked is the keyword, struct or   *)
(* dclass token of the lexer, the routine it calls is parseKeyword,        *)
(* parseStruct or parseClass, and no error 'expected a declaration' is     *)
(* made for that token.                                                    *)
C30_DeclarationKeywordsDispatched ==
    /\ \A i \in DOMAIN stack :
          ( /\ stack[i].fn = "parseDeclaration"
            /\ stack[i].pc = "tail"
            /\ stack[i].t.typ \in {tokenKeyword, tokenStruct, tokenDClass}
            /\ i < Len(stack) ) =>
             stack[i + 1].fn = DeclarationRoutine(stack[i].t.typ)
    /\ \A e \in produced, typ \in {tokenKeyword, tokenStruct, tokenDClass} :
          e.msg # expectedDeclaration([typ |-> typ, pos |-> 0, val |-> tokenName(typ)])

---------------------------------------------------------------------------
(* A property of AddType on the File of Parse, under SpecFiles.            *)

(* C38: on a File made by new(File), whose ClassByName map is nil,         *)
(* AddType(name, typ) with typ "class" or "struct" returns normally, and   *)
(* after it ClassByName[name] is the Type returned, which is also the last *)
(* element of Classes.                                                     *)
C38_AddTypeOnNewFile ==
    [][ \A f \in Files :
          ( /\ FileOf(f).ClassByName.isNil
            /\ calls' # calls
            /\ LastCall'.op = "AddType"
            /\ LastCall'.f = f
            /\ LastCall'.typ \in {"class", "struct"} ) =>
             /\ ~LastCall'.panicked
             /\ ~FileOf(f)'.ClassByName.isNil
             /\ FileOf(f)'.ClassByName.entries[LastCall'.name] = LastCall'.ret
             /\ LastOf(FileOf(f)'.Classes) = LastCall'.ret ]_vars

---------------------------------------------------------------------------
(* More properties of the tokens of the lexer, under SpecLex.              *)

(* C39: the text of every number token holds a digit of its base: it is    *)
(* not a '.' alone and not a base prefix 0x or 0b alone.                   *)
C39_NumberTokenHasDigit ==
    \A i \in DOMAIN emitted :
        emitted[i].typ = tokenNumber =>
            LET val    == emitted[i].val
                prefix == Len(val) >= 2 /\ val[1] = "0"
                          /\ val[2] \in {"x", "X", "b", "B"}
            IN IF prefix
               THEN \E k \in 3..Len(val) : val[k] \in hexadecimalDigits
               ELSE \E k \in DOMAIN val : val[k] \in decimalDigits

(* The offsets of the '\r' and '\n' runes from offset pos on. *)
EndlinesFrom(pos) == {i \in pos..(Len(input) - 1) : RuneAt(i) \in {"\r", "\n"}}

(* C40: a step of the lexer in a '//' comment sends the error 'no new line *)
(* after comment', its last token, when no '\r' or '\n' follows in the     *)
(* input; when one follows, the step sends no token and the scan goes on   *)
(* right after the first of them.                                          *)
C40_LineComment ==
    [][ (Running("lexComment") /\ <<lx, lpc>>' # <<lx, lpc>>) =>
          IF EndlinesFrom(lx.pos) = {}
          THEN /\ emitted' = Append(emitted, [typ |-> tokenError, pos |-> lx.start,
                                              val |-> <<"no new line after comment">>])
               /\ cont' = "nil"
          ELSE /\ emitted' = emitted
               /\ tokens' = tokens
               /\ lpc' = "run"
               /\ lx'.state = "lexAny"
               /\ lx'.pos = Least(EndlinesFrom(lx.pos)) + 1
               /\ lx'.start = lx'.pos ]_vars

C40_Witness ==
    /\ input = <<"/", "/", "a">>
    /\ LexerDone
    /\ emitted = << [typ |-> tokenError, pos |-> 0,
                     val |-> <<"no new line after comment">>] >>

---------------------------------------------------------------------------
(* The lexer with a consumer that keeps taking tokens: the goroutine runs  *)
(* whenever it can, and nextToken is called again and again.               *)

FairSpecLex == SpecLex /\ WF_vars(LexerNext) /\ WF_vars(nextToken)

TerminalDelivered == sent # <<>> /\ IsTerminal(LastOf(sent))

(* A state function that returns to the loop of run without having sent a  *)
(* token has put input behind it (the start of the pending token moved      *)
(* on), or is lexAny handing over to the state function that does.          *)
RunMakesProgress ==
    (lpc = "run" /\ lpc' = "run" /\ lx' # lx)
        => \/ lx'.start > lx.start /\ lx'.pos >= lx'.start
           \/ lx.state = "lexAny" /\ lx'.state # "lexAny" /\ lx'.pos >= lx.pos

(* C37: for every input, with a consumer that keeps taking tokens, the     *)
(* lexer eventually delivers its terminal token and its goroutine ends:    *)
(* no state function returns to the loop without progress.                 *)
C37_LexerTerminates ==
    /\ [][RunMakesProgress]_vars
    /\ <>(TerminalDelivered /\ LexerDone)

C37_Witness ==
    /\ TerminalDelivered
    /\ LexerDone
    /\ input = <<"/","/","a","\n","x">>
    /\ Len(sent) = 2


---------------------------------------------------------------------------
(* The parser routines that Parse does not reach (the words struct,        *)
(* keyword and dclass never select them, parse.go:96-103): each is entered *)
(* on a new parser, as its caller in parse.go enters it, on every text of  *)
(* ParseInputs and on a struct body.  calls[1].op is the routine entered.  *)

Routines == {"expectEndline", "parseStructInner"}

(* `{ int8 x; } ;` *)
StructBodyText ==
    <<"{"," ","i","n","t","8"," ","x",";"," ","}"," ",";">>

RoutineInputs == ParseInputs \cup {StructBodyText}

InitRoutines ==
    /\ \E text \in RoutineInputs : lex(text)
    /\ \E fn \in Routines :
          /\ stack = <<Frame(fn, "start", newParser, 1)>>
          /\ calls = <<[op |-> fn]>>
    /\ dcf = newFile
    /\ retval = FALSE
    /\ produced = {}
    /\ reported = <<>>
    /\ result = <<>>
    /\ other = newFile

NextRoutines ==
    \/ lexAny \/ lexComment \/ lexBlockComment \/ lexSpace
    \/ lexIdentifier \/ lexQuote \/ lexChar \/ lexNumber \/ sendDone
    \/ expectEndline \/ parseField \/ parseStructInner

SpecRoutines == InitRoutines /\ [][NextRoutines]_vars

---------------------------------------------------------------------------
(* Properties of the parser routines, under SpecRoutines.                  *)

RoutineReturned(fn) == calls[1].op = fn /\ stack = <<>> /\ result = <<>>

(* C31: expectEndline on a ';' takes that token only, records nothing and  *)
(* returns true; otherwise it records 'missing semicolon', takes tokens up *)
(* to and including the next ';', EOF or error token, and returns false    *)
(* only when it stopped at EOF or an error token.                          *)
C31_ExpectEndline ==
    RoutineReturned("expectEndline") =>
        IF returned[1].typ = tokenEndline
        THEN Len(returned) = 1 /\ produced = {} /\ retval = TRUE
        ELSE /\ parseError(missingSemicolon, 1) \in produced
             /\ \A i \in 1..(Len(returned) - 1) :
                   /\ returned[i].typ # tokenEndline
                   /\ ~IsTerminal(returned[i])
             /\ retval = (LastOf(returned).typ = tokenEndline)

(* C33: parseField never takes a '}' as the first token of a field: the    *)
(* '}' at a field-start position ends the fields of the struct.            *)
C33_FieldsStopAtRightCurly ==
    [][ (At("parseField", "start") /\ returned' # returned)
            => LastOf(returned').typ # tokenRightCurly ]_vars

(* Where the routine on top of the stack is about to call p.next() or      *)
(* p.peek().                                                               *)
CallsNext ==
    /\ stack # <<>>
    /\ \/ Top.fn \in {"expectEndline", "expectRightCurly"}
       \/ Top.fn = "parseField" /\ Top.pc = "start"
       \/ Top.fn = "parseStructInner" /\ Top.pc = "start"
       \/ /\ Top.fn = "parseStructInner" /\ Top.pc = "loop"
          /\ (Top.t.typ = tokenRightCurly \/ IsTerminal(Top.t))
CallsPeek ==
    /\ stack # <<>>
    /\ Top.fn \in {"parseField", "parseStructInner"}
    /\ Top.pc = "peek"
RequestsToken == (CallsNext /\ ~parserNextPanics(Top)) \/ CallsPeek

TerminalReturned == \E i \in DOMAIN returned : IsTerminal(returned[i])
EOFReturned == \E i \in DOMAIN returned : returned[i].typ = tokenEOF

(* C35: once a routine has been handed the terminal token (EOF or error),  *)
(* the parser asks the lexer for no further token, and it never waits on   *)
(* the channel of a lexer goroutine that has ended.                        *)
C35_NoTokenAfterTerminal ==
    /\ TerminalReturned => ~RequestsToken
    /\ ~(RequestsToken /\ LexerDone /\ ~nextTokenReady)

(* C36: a call of parser.next() made after parser.next() has returned the  *)
(* EOF token panics with 'eof not handled by parser'.                      *)
C36_NextAfterEOFPanics ==
    (CallsNext /\ EOFReturned) => parserNextPanics(Top)

---------------------------------------------------------------------------
(* Properties of the recovery and of struct declarations, under Spec.      *)

TakenOf(toks, typ) == Cardinality({i \in DOMAIN toks : toks[i].typ = typ})

(* C32: when the first declaration of a text opens with '{' and the        *)
(* recovery of expectRightCurly ends at a '}', that '}' is the one that    *)
(* matches the opening '{': the tokens taken so far hold as many '{' as    *)
(* '}', a block inside the skipped block having been skipped whole.        *)
C32_RecoversToMatchingCurly ==
    [][ ( /\ stack # <<>> /\ Top.fn = "expectRightCurly"
          /\ Len(stack') < Len(stack) /\ result' = <<>> /\ retval' = TRUE
          /\ returned[1].typ = tokenLeftCurly
          /\ TakenOf(returned, tokenRightCurly) = 0 )
        => TakenOf(returned', tokenLeftCurly) = TakenOf(returned', tokenRightCurly) ]_vars

structAlreadyDefined(name) == <<"struct ">> \o name \o <<" already defined above">>

(* C34: on a text that declares the struct S twice, the diagnostics are    *)
(* the parse error 'struct S already defined above' and no other, and the  *)
(* File never holds a second Type.                                         *)
C34_DuplicateStructReported ==
    input = DuplicateStructText =>
        /\ \A e \in produced : e = parseError(structAlreadyDefined(<<"S">>), 1)
        /\ Len(dcf.Classes) <= 1

=========================================================================
